---- MODULE Spec2Model ----
(***************************************************************************)
(* A model of the example Express applications of the repository.  Every  *)
(* application is a stack of layers registered in source order            *)
(* (app.use / app.METHOD); a request walks the stack from the top, each    *)
(* handler either answers or calls next(), and what no layer answers is    *)
(* answered by Express's final handler.                                    *)
(***************************************************************************)
EXTENDS Integers, Sequences, FiniteSets, TLC

VARIABLES
  req,     \* app -> the request being served (method, path, headers, req.user)
  cur,     \* app -> 0: no request; k: layer k of the stack runs next; Len+1: final handler
  err,     \* app -> the error handed to next(err), NoErr when none
  res,     \* app -> the response sent for the request, NoRes while none was sent
  trace,   \* app -> what ran for the request, in order (handlers, next() calls, log lines)
  pend,    \* app -> the handler waiting on a promise, NoPend when none
  store,   \* app -> the session store: session ID -> the session saved under it
  jar,     \* app -> client -> the session ID in the client's cookie, 0 when it holds none
  nextSid, \* app -> the next session ID the middleware generates
  last,    \* app -> client -> the client's last request and its outcome
  users,   \* JWT example: the users array, in the order register pushed them
  issued,  \* JWT example: the tokens login has signed so far
  now,     \* JWT example: the time, in hours since the server started
  jwtLast, \* JWT example: the last request and its outcome
  db,      \* users API: the documents of the User collection, in natural order
  nextId,  \* users API: the _id the next created document gets
  created, \* users API: the ids POST /users answered 201 for
  deleted, \* users API: the ids DELETE /users/:id answered 204 for
  ulast,   \* users API: the last request and its outcome
  redis,   \* cache example: what Redis holds under the cache key
  clock,   \* cache example: the time, in ticks
  waiting, \* cache example: the clients whose GET /data waits for Redis's reply
  setex,   \* cache example: how many SETEX commands are on their way to Redis
  up,      \* cache example: whether the server process runs
  dlast,   \* cache example: the last reply to GET /data
  worker,  \* cluster example: worker -> "none", "forked", "listening" or "dead"
  conns,   \* cluster example: worker -> the connections handed to it and not answered
  exits,   \* cluster example: the workers whose exit the master has not handled yet
  clog,    \* cluster example: the lines the processes logged, in order
  hello,   \* cluster example: the last response, and the worker that sent it
  client,  \* Socket.io example: socket -> "none", "active" or "closed", at the client
  socks,   \* Socket.io example: socket -> "none", "connected" or "gone", at the server
  upq,     \* Socket.io example: socket -> the packets on their way to the server
  downq,   \* Socket.io example: socket -> the packets on their way to the client
  inbox,   \* Socket.io example: socket -> what the client's 'message' listener got
  slog,    \* Socket.io example: the lines the server logged, in order
  emitted, \* Socket.io example: how many messages the clients have emitted
  nodeEnv, \* products example: process.env.NODE_ENV, NotStarted before the process runs
  ppath,   \* products example: the path of the request being served, Undefined when none
  perr,    \* products example: the error handed to next(err), NoPErr when none
  pans,    \* products example: the last answer, the error and the request it answered
  plog,    \* products example: what console.error printed last
  sreq,    \* save-a-user example: request -> where it stands, its method and path
  sans,    \* save-a-user example: request -> the responses sent for it, in order
  sdocs,   \* save-a-user example: how many users the collection holds
  sproc    \* save-a-user example: the Node process, "up" or "crashed"

dispVars == <<req, cur, err, res, trace, pend>>

sessVars == <<store, jar, nextSid, last>>

jwtVars == <<users, issued, now, jwtLast>>

crudVars == <<db, nextId, created, deleted, ulast>>

cacheVars == <<redis, clock, waiting, setex, up, dlast>>

clusterVars == <<worker, conns, exits, clog, hello>>

socketVars == <<client, socks, upq, downq, inbox, slog, emitted>>

prodVars == <<nodeEnv, ppath, perr, pans, plog>>

saveVars == <<sreq, sans, sdocs, sproc>>

\* the state of the applications that keep their own data
appVars == <<jwtVars, crudVars, cacheVars, clusterVars, socketVars, prodVars, saveVars>>

vars == <<dispVars, sessVars, appVars>>

----------------------------------------------------------------------------
(* Values shared by the applications *)

Undefined == "undefined"
NoErr == "none"
NoPend == "none"
\* A response: the status, the text body as the pieces a template string joins,
\* and the message and user fields of a JSON body.
NoRes == [status |-> 0, text |-> <<>>, message |-> Undefined, user |-> Undefined]

\* res.status(s).send(text)
SendText(s, t) == [status |-> s, text |-> t, message |-> Undefined, user |-> Undefined]
\* res.status(s).json({message, user})
SendJson(s, m, u) == [status |-> s, text |-> <<>>, message |-> m, user |-> u]

Apps == {"workouts", "errbasic", "errasync", "roles",
         "mwlog", "mwtoken", "mwheader", "mwstamp",
         "multi", "order", "dash", "chain", "unitauth"}

Methods == {"GET", "POST"}

IdleReq == [method |-> Undefined, path |-> Undefined, auth |-> <<>>, hasAuth |-> FALSE,
            user |-> Undefined, query |-> Undefined]

----------------------------------------------------------------------------
(* Workouts/middleware/auth.js *)

SECRET_KEY == "your_secret_key"

\* The tokens a client may present: what each was signed with, whether it has
\* expired, and its payload.  "t_garbage" is not a JWT at all.
Tokens == {"t_alice", "t_bob", "t_badsig", "t_expired", "t_garbage"}

TokenKey(t) ==
  CASE t \in {"t_alice", "t_bob", "t_expired"} -> SECRET_KEY
    [] t = "t_badsig" -> "another_key"
    [] OTHER -> Undefined

TokenExpired(t) == t = "t_expired"

TokenPayload(t) ==
  CASE t \in {"t_alice", "t_expired"} -> "alice"
    [] t = "t_bob" -> "bob"
    [] t = "t_badsig" -> "mallory"
    [] OTHER -> Undefined

\* a slip: verification with ignoreExpiration
JwtThrowsIgnoringExpiry(t, key) == t \notin Tokens \/ TokenKey(t) # key

\* jwt.verify(token, key) returns the payload; JwtThrows is when it throws instead
JwtThrows(t, key) == t \notin Tokens \/ TokenKey(t) # key \/ TokenExpired(t)
JwtVerify(t, key) == TokenPayload(t)

\* A header value is a sequence of characters; a token or the word Bearer
\* counts as one character, Space is the separator.
Space == " "

\* token.split(" "): the fields between the separators (empty fields included)
RECURSIVE SplitFrom(_, _, _)
SplitFrom(s, i, field) ==
  IF i > Len(s) THEN <<field>>
  ELSE IF s[i] = Space THEN <<field>> \o SplitFrom(s, i + 1, <<>>)
  ELSE SplitFrom(s, i + 1, Append(field, s[i]))

Split(s) == SplitFrom(s, 1, <<>>)

\* a field as the string jwt.verify receives: a lone token character is that
\* token, anything else (empty, several characters) is no JWT
FieldToken(f) == IF Len(f) = 1 THEN f[1] ELSE "t_garbage"

\* a slip: the first field is taken for the token
BearerFieldFirst(h) == FieldToken(Split(h)[1])

\* token.split(" ")[1], undefined when the header holds no space
BearerField(h) == IF Len(Split(h)) >= 2 THEN FieldToken(Split(h)[2]) ELSE Undefined

\* a slip: only an absent header counts as missing (token === undefined)
TokenMissingStrict(r) == ~r.hasAuth

\* !token: the header is absent or the empty string
TokenMissing(r) == ~r.hasAuth \/ r.auth = <<>>

----------------------------------------------------------------------------
(* Workouts: index.js and router/profile.router.js *)

\* The layers in registration order.  The profile router is mounted at "/" and
\* holds the one route GET /profile with its two handlers.
WorkoutsStack == <<
  [name |-> "verifyToken",    kind |-> "route", method |-> "GET", path |-> "/profile"],
  [name |-> "profileHandler", kind |-> "route", method |-> "GET", path |-> "/profile"],
  [name |-> "printDate",      kind |-> "use",   method |-> "*",   path |-> "/"],
  [name |-> "home",           kind |-> "route", method |-> "GET", path |-> "/"],
  [name |-> "contact",        kind |-> "route", method |-> "GET", path |-> "/contact"],
  [name |-> "about",          kind |-> "route", method |-> "GET", path |-> "/about"],
  [name |-> "blog",           kind |-> "route", method |-> "GET", path |-> "/blog"],
  [name |-> "catchAll",       kind |-> "route", method |-> "GET", path |-> "*"] >>

WorkoutsPaths == {"/", "/contact", "/about", "/blog", "/profile", "/nope"}

\* the Authorization headers tried: none, empty, "Bearer <token>", the raw
\* token alone, "Bearer" alone, and "Bearer  <token>" with two spaces
WorkoutsHeaders ==
  {<<>>} \cup {<<"Bearer", Space, t>> : t \in Tokens} \cup {<<t>> : t \in Tokens}
    \cup {<<"Bearer">>, <<"Bearer", Space>>, <<"Bearer", Space, Space, "t_alice">>}

----------------------------------------------------------------------------
(* Error-Handling/centralized.handling.md: the example applications *)

\* "Basic Error-handling Middleware Example": the error-handling middleware is
\* registered first, the route that throws after it.
ErrBasicStack == <<
  [name |-> "errorMw",    kind |-> "error", method |-> "*",   path |-> "/"],
  [name |-> "rootThrows", kind |-> "route", method |-> "GET", path |-> "/"] >>

\* "Catching Asynchronous Errors": the promise route, the error-handling
\* middleware, the async/await route, in the order of the text
ErrAsyncStack == <<
  [name |-> "asyncError", kind |-> "route", method |-> "GET", path |-> "/async-error"],
  [name |-> "errorMw",    kind |-> "error", method |-> "*",   path |-> "/"],
  [name |-> "asyncAwait", kind |-> "route", method |-> "GET", path |-> "/async-await"] >>

ErrApps == {"errbasic", "errasync"}

ErrPaths(a) == IF a = "errbasic" THEN {"/", "/other"}
               ELSE {"/async-error", "/async-await", "/other"}

\* what the application's error-handling middleware sends
ErrMwText(a) == IF a = "errbasic" THEN "Something went wrong!"
                ELSE "Asynchronous error occurred"

\* whether it logs err.stack first
ErrMwLogs(a) == a = "errbasic"

----------------------------------------------------------------------------
(* Session-Cookies/session.md: express-session and the session examples *)

\* "authsess": Basic Session Implementation (login, logout, dashboard)
\* "sessdemo": Implementing Sessions in an Express Application (username, profile)
\* "regen":    the consolidated example whose login regenerates the session
SessApps == {"authsess", "sessdemo", "regen"}

Clients == {"c1", "c2"}

\* how many session IDs the middleware generates in a run
MaxSid == 4

\* a slip: every application saves the sessions it did not touch
SaveUninitializedAlways(a) == TRUE

\* the saveUninitialized option of the application's session()
SaveUninitialized(a) == a = "sessdemo"

NoSess == [live |-> FALSE, userId |-> 0, username |-> Undefined]

\* a session as generate() makes it: no userId (0), no username
EmptySess == [live |-> TRUE, userId |-> 0, username |-> Undefined]

\* const users = [{ id: 1, username: 'user1', password: 'pass1' }]
Usernames == {"user1", "user2"}
Passwords == {"pass1", "pass2"}

\* users.find(u => u.username === username && u.password === password):
\* the id of the user found, 0 when find returns undefined
FindUser(u, p) == IF u = "user1" /\ p = "pass1" THEN 1 ELSE 0

\* the usernames posted to the demo's login: a name, the empty string, none
DemoUsernames == {"alice", "", Undefined}

\* !value of a string or undefined
Falsy(v) == v = Undefined \/ v = ""

\* The session middleware at the start of a request: the session the cookie
\* names when the store holds it, otherwise a generated one under a fresh ID.
HasStored(a, c) == jar[a][c] # 0 /\ store[a][jar[a][c]].live
LoadSid(a, c) == IF HasStored(a, c) THEN jar[a][c] ELSE nextSid[a]
LoadData(a, c) == IF HasStored(a, c) THEN store[a][jar[a][c]] ELSE EmptySess

\* a slip: destroy answers without removing the session
StoreDestroyKeeps(st, sid) == st

\* store.destroy(sid)
StoreDestroy(st, sid) == [st EXCEPT ![sid] = NoSess]

\* a slip: the cookie is left in place
ClearCookieKeeps(j, c) == j

\* res.clearCookie('connect.sid')
ClearCookie(j, c) == [j EXCEPT ![c] = 0]

\* a slip: the regenerated session keeps the ID it had
RegeneratedSidSame(old, fresh) == old

\* store.regenerate: the new session's ID is a freshly generated one
RegeneratedSid(old, fresh) == fresh

\* The session middleware at the end of a request.  st and j are the store and
\* the cookies after the handler; orig the ID of the session the request
\* started with, sid and data the session it ends with, loaded that session's
\* data as loaded or generated, alive whether req.session still exists, used
\* the number of IDs generated.  The session is saved when the handler changed
\* it or gave it another ID, or when it is new and saveUninitialized is set;
\* the cookie is set when a session was saved under an ID other than the one
\* presented.
EndRequest(a, c, st, j, orig, sid, data, loaded, alive, used) ==
  LET isNew == ~st[sid].live
      saved == alive /\ (sid # orig \/ data # loaded \/ (isNew /\ SaveUninitialized(a)))
  IN /\ store' = [store EXCEPT ![a] = IF saved THEN [st EXCEPT ![sid] = data] ELSE st]
     /\ jar' = [jar EXCEPT ![a] = IF saved /\ j[c] # sid THEN [j EXCEPT ![c] = sid] ELSE j]
     /\ nextSid' = [nextSid EXCEPT ![a] = @ + used]

\* the IDs a request generates: one unless the cookie named a stored session
Generated(a, c) == IF HasStored(a, c) THEN 0 ELSE 1

\* the sessions that carry a userId
Carriers(a) == {s \in 1..MaxSid : store[a][s].live /\ store[a][s].userId # 0}

NoLast == [op |-> "none", status |-> 0, text |-> <<>>, presented |-> 0, loaded |-> 0,
           derr |-> FALSE, authed |-> FALSE, sinceLogout |-> "none", tick |-> FALSE]

\* the record of client c's request: what it was, what it presented, what the
\* answer was.  authed: a login succeeded and no logout has succeeded since;
\* sinceLogout: the outcome of a logout no login has followed; tick alternates
\* with every request of the client.
Record(a, c, op, status, text, derr) ==
  [op |-> op, status |-> status, text |-> text,
   presented |-> jar[a][c], loaded |-> LoadSid(a, c), derr |-> derr,
   authed |-> IF op = "login" /\ status = 200 THEN TRUE
              ELSE IF op = "logout" /\ status = 200 THEN FALSE
              ELSE last[a][c].authed,
   sinceLogout |-> IF op = "login" THEN "none"
                   ELSE IF op = "logout" THEN (IF derr THEN "err" ELSE "ok")
                   ELSE last[a][c].sinceLogout,
   tick |-> ~last[a][c].tick]

\* POST /login of the basic and the consolidated example
Login(a, c) ==
  \E u \in Usernames, p \in Passwords, derr \in BOOLEAN :
    LET sid == LoadSid(a, c)
        data == LoadData(a, c)
        user == FindUser(u, p)
        fresh == nextSid[a] + Generated(a, c)
        newSid == RegeneratedSid(sid, fresh)
    IN /\ a \in {"authsess", "regen"}
       /\ sid <= MaxSid
       /\ IF user = 0
          THEN /\ EndRequest(a, c, store[a], jar[a], sid, sid, data, data, TRUE, Generated(a, c))
               /\ last' = [last EXCEPT ![a][c] =
                             Record(a, c, "login", 401, <<"Invalid credentials">>, FALSE)]
          ELSE IF a = "authsess"
          THEN /\ EndRequest(a, c, store[a], jar[a], sid, sid, [data EXCEPT !.userId = user],
                             data, TRUE, Generated(a, c))
               /\ last' = [last EXCEPT ![a][c] =
                             Record(a, c, "login", 200, <<"Login successful">>, FALSE)]
          \* req.session.regenerate: the old session is destroyed, a new one is
          \* generated either way, and the callback gets destroy's error
          ELSE /\ fresh <= MaxSid
               /\ IF derr
                  THEN /\ EndRequest(a, c, store[a], jar[a], sid, newSid, EmptySess, EmptySess,
                                     TRUE, Generated(a, c) + 1)
                       /\ last' = [last EXCEPT ![a][c] =
                                     Record(a, c, "login", 500,
                                            <<"Could not regenerate session">>, TRUE)]
                  ELSE /\ EndRequest(a, c, StoreDestroy(store[a], sid), jar[a], sid, newSid,
                                     [EmptySess EXCEPT !.userId = user], EmptySess,
                                     TRUE, Generated(a, c) + 1)
                       /\ last' = [last EXCEPT ![a][c] =
                                     Record(a, c, "login", 200, <<"Login successful">>, FALSE)]
       /\ UNCHANGED <<dispVars, appVars>>

\* POST /logout of the basic and the consolidated example
Logout(a, c) ==
  \E derr \in BOOLEAN :
    LET sid == LoadSid(a, c)
    IN /\ a \in {"authsess", "regen"}
       /\ sid <= MaxSid
       /\ IF derr
          THEN /\ EndRequest(a, c, store[a], jar[a], sid, sid, NoSess, NoSess, FALSE,
                             Generated(a, c))
               /\ last' = [last EXCEPT ![a][c] =
                             Record(a, c, "logout", 500, <<"Could not log out">>, TRUE)]
          ELSE /\ EndRequest(a, c, StoreDestroy(store[a], sid), jar[a], sid, sid, NoSess, NoSess,
                             FALSE, Generated(a, c))
               /\ last' = [last EXCEPT ![a][c] =
                             Record(a, c, "logout", 200, <<"Logout successful">>, FALSE)]
       /\ UNCHANGED <<dispVars, appVars>>

\* GET /dashboard
Dashboard(a, c) ==
  LET sid == LoadSid(a, c)
      data == LoadData(a, c)
  IN /\ a \in {"authsess", "regen"}
     /\ sid <= MaxSid
     /\ EndRequest(a, c, store[a], jar[a], sid, sid, data, data, TRUE, Generated(a, c))
     /\ last' = [last EXCEPT ![a][c] =
                   IF data.userId = 0
                   THEN Record(a, c, "dashboard", 403, <<"Unauthorized access">>, FALSE)
                   ELSE Record(a, c, "dashboard", 200, <<"Welcome to your dashboard!">>, FALSE)]
     /\ UNCHANGED <<dispVars, appVars>>

\* POST /login of the demo: the username of the body goes into the session
DemoLogin(c) ==
  \E u \in DemoUsernames :
    LET a == "sessdemo"
        sid == LoadSid(a, c)
        data == LoadData(a, c)
    IN /\ sid <= MaxSid
       /\ EndRequest(a, c, store[a], jar[a], sid, sid, [data EXCEPT !.username = u], data,
                     TRUE, Generated(a, c))
       /\ last' = [last EXCEPT ![a][c] =
                     Record(a, c, "login", 200, <<"Hello ", u, ", you are logged in!">>, FALSE)]
       /\ UNCHANGED <<dispVars, appVars>>

\* GET /profile of the demo
DemoProfile(c) ==
  LET a == "sessdemo"
      sid == LoadSid(a, c)
      data == LoadData(a, c)
  IN /\ sid <= MaxSid
     /\ EndRequest(a, c, store[a], jar[a], sid, sid, data, data, TRUE, Generated(a, c))
     /\ last' = [last EXCEPT ![a][c] =
                   IF Falsy(data.username)
                   THEN Record(a, c, "profile", 401, <<"Unauthorized">>, FALSE)
                   ELSE Record(a, c, "profile", 200, <<"Welcome ", data.username>>, FALSE)]
     /\ UNCHANGED <<dispVars, appVars>>

\* POST /logout of the demo: on an error of destroy only the redirect
DemoLogout(c) ==
  \E derr \in BOOLEAN :
    LET a == "sessdemo"
        sid == LoadSid(a, c)
    IN /\ sid <= MaxSid
       /\ IF derr
          THEN EndRequest(a, c, store[a], jar[a], sid, sid, NoSess, NoSess, FALSE, Generated(a, c))
          ELSE EndRequest(a, c, StoreDestroy(store[a], sid), ClearCookie(jar[a], c), sid, sid,
                          NoSess, NoSess, FALSE, Generated(a, c))
       /\ last' = [last EXCEPT ![a][c] = Record(a, c, "logout", 302, <<"/">>, derr)]
       /\ UNCHANGED <<dispVars, appVars>>

\* GET /, where the logout redirects to: the demo defines no such route, the
\* session middleware has run and Express's final handler answers
DemoRoot(c) ==
  LET a == "sessdemo"
      sid == LoadSid(a, c)
      data == LoadData(a, c)
  IN /\ sid <= MaxSid
     /\ EndRequest(a, c, store[a], jar[a], sid, sid, data, data, TRUE, Generated(a, c))
     /\ last' = [last EXCEPT ![a][c] =
                   Record(a, c, "root", 404, <<"Cannot ", "GET", " ", "/">>, FALSE)]
     /\ UNCHANGED <<dispVars, appVars>>

----------------------------------------------------------------------------
(* Authentication-Authorization/authentication.md: role-based authorization *)

\* "Example of Protected Routes": a route's handlers run in the order given
RolesStack == <<
  [name |-> "adminAuth", kind |-> "route", method |-> "GET",  path |-> "/admin"],
  [name |-> "admin",     kind |-> "route", method |-> "GET",  path |-> "/admin"],
  [name |-> "editAuth",  kind |-> "route", method |-> "POST", path |-> "/edit"],
  [name |-> "edit",      kind |-> "route", method |-> "POST", path |-> "/edit"],
  [name |-> "view",      kind |-> "route", method |-> "GET",  path |-> "/view"] >>

RolesPaths == {"/admin", "/edit", "/view", "/", "/nope"}

\* req.user as the authentication in front of the routes left it: unset, or a
\* user with one of the schema's roles, a user with another role, or a user
\* without a role
RoleUsers == {Undefined, "anAdmin", "anEditor", "aViewer", "aGuest", "noRole"}
RoleOf(u) ==
  CASE u = "anAdmin" -> "admin"
    [] u = "anEditor" -> "editor"
    [] u = "aViewer" -> "viewer"
    [] u = "aGuest" -> "guest"
    [] OTHER -> Undefined

\* roles.includes(role)
Includes(roles, role) == \E i \in 1..Len(roles) : roles[i] = role

ForbiddenUnlessUser(roles, u) == u = Undefined
\* !req.user || !roles.includes(req.user.role)
Forbidden(roles, u) == u = Undefined \/ ~Includes(roles, RoleOf(u))

----------------------------------------------------------------------------
(* unnamed/part_010: the custom-middleware examples *)

\* One application per example: logRequestDetails, checkToken, logAndAddHeader
\* and addTimestamp, each applied to all routes with app.use.
MwApps == {"mwlog", "mwtoken", "mwheader", "mwstamp"}

Middleware(a) ==
  CASE a = "mwlog" -> "logRequestDetails"
    [] a = "mwtoken" -> "checkToken"
    [] a = "mwheader" -> "logAndAddHeader"
    [] a = "mwstamp" -> "addTimestamp"

MwStack(a) ==
  <<[name |-> Middleware(a), kind |-> "use", method |-> "*", path |-> "/"],
    [name |-> "home", kind |-> "route", method |-> "GET", path |-> "/"]>>
  \o IF a = "mwheader"
       THEN <<[name |-> "about", kind |-> "route", method |-> "GET", path |-> "/about"]>>
       ELSE <<>>

MwPaths == {"/", "/about", "/contact", "/nope"}

\* req.query.token: no such parameter, ?token= and ?token=abc; only checkToken
\* reads it
MwTokens(a) == IF a = "mwtoken" THEN {Undefined, "", "abc"} ELSE {Undefined}

HasTokenUnlessUndefined(q) == q # Undefined
\* if (req.query.token)
HasToken(q) == ~Falsy(q)

\* what the home route of each example sends
MwHomeText(a) ==
  CASE a = "mwlog" -> <<"Home Page">>
    [] a = "mwtoken" -> <<"Welcome to the Home Page">>
    [] a = "mwheader" -> <<"Home Page with a Custom Header">>
    [] a = "mwstamp" -> <<"Request received at: ", "req.timestamp">>

----------------------------------------------------------------------------
(* unnamed/part_010, unnamed/part_009, Routing/advanced.md: several handlers *)
(* in a row                                                                  *)

\* "multi": GET /profile with [checkAuth, logDetails] (part_010);
\* "order": two app.use middleware before GET / (part_009, 6.1);
\* "dash":  GET /dashboard with [validateToken, logRequest] (part_009, 6.3);
\* "chain": GET /dashboard with logRequest, validateUser (Routing/advanced.md).
ChainApps == {"multi", "order", "dash", "chain"}

Layer(name, kind, method, path) ==
  [name |-> name, kind |-> kind, method |-> method, path |-> path]

\* the handlers of one route are layers of their own, in the order given
ChainStack(a) ==
  CASE a = "multi" -> <<Layer("checkAuth", "route", "GET", "/profile"),
                        Layer("logDetails", "route", "GET", "/profile"),
                        Layer("profilePage", "route", "GET", "/profile")>>
    [] a = "order" -> <<Layer("first", "use", "*", "/"),
                        Layer("second", "use", "*", "/"),
                        Layer("hello", "route", "GET", "/")>>
    [] a = "dash" ->  <<Layer("validateToken", "route", "GET", "/dashboard"),
                        Layer("logRequest", "route", "GET", "/dashboard"),
                        Layer("dashboard", "route", "GET", "/dashboard")>>
    [] a = "chain" -> <<Layer("logRequest", "route", "GET", "/dashboard"),
                        Layer("validateUser", "route", "GET", "/dashboard"),
                        Layer("dashboard", "route", "GET", "/dashboard")>>

ChainPaths(a) ==
  CASE a = "multi" -> {"/profile", "/", "/nope"}
    [] a = "order" -> {"/", "/nope"}
    [] OTHER -> {"/dashboard", "/", "/nope"}

\* the query parameter the example reads: auth, none, token, user
ChainQueries(a) ==
  CASE a = "multi" -> {Undefined, "true", "false"}
    [] a = "order" -> {Undefined}
    [] a = "dash" -> {Undefined, "", "abc"}
    [] a = "chain" -> {Undefined, "admin", "guest"}

AuthTruthy(q) == ~Falsy(q)
\* req.query.auth === 'true'
AuthTrue(q) == q = "true"

----------------------------------------------------------------------------
(* Testing/unit.testing.md: the middleware under test *)

\* middleware/auth.js, as an application that uses it calls it: for every
\* request, before anything else
UnitAuthStack == <<
  [name |-> "authMiddleware", kind |-> "use", method |-> "*", path |-> "/"] >>

UnitPaths == {"/", "/users", "/users/1"}

\* the Authorization headers tried: the test's 'token', Bearer headers, and
\* the empty value
UnitHeaders == {<<>>, <<"token">>} \cup {<<"Bearer", Space, t>> : t \in Tokens}

\* { id: 1, name: 'John Doe' }, by its name
SimulatedUser == "John Doe"

\* a slip: any header counts, the empty one too
HeaderPresent(r) == r.hasAuth

\* if (token), with token = req.headers['authorization']: the header is there
\* and is not the empty string
HeaderTruthy(r) == r.hasAuth /\ r.auth # <<>>

----------------------------------------------------------------------------
(* Express: the walk of a request down the stack *)

Stack(a) ==
  CASE a = "workouts" -> WorkoutsStack
    [] a = "errbasic" -> ErrBasicStack
    [] a = "errasync" -> ErrAsyncStack
    [] a = "roles" -> RolesStack
    [] a \in MwApps -> MwStack(a)
    [] a \in ChainApps -> ChainStack(a)
    [] a = "unitauth" -> UnitAuthStack
    [] OTHER -> <<>>

\* app.use(path, fn) serves every path under its mount point
PathUnder(mount, p) == mount = "/" \/ mount = p

\* Whether layer l takes the request: with an error pending only the
\* four-argument handlers do, without one only the others, a route only for
\* its own method and path
Matches(l, r, e) ==
  IF e # NoErr THEN l.kind = "error"
  ELSE \/ l.kind = "use" /\ PathUnder(l.path, r.path)
       \/ l.kind = "route" /\ l.method = r.method /\ (l.path = "*" \/ l.path = r.path)

\* the first layer at or after i that takes the request; Len + 1: none does
RECURSIVE NextLayer(_, _, _, _)
NextLayer(st, i, r, e) ==
  IF i > Len(st) THEN Len(st) + 1
  ELSE IF Matches(st[i], r, e) THEN i
  ELSE NextLayer(st, i + 1, r, e)

Responded == -1

\* the handler called `name` of application a is the one to run
At(a, name) ==
  /\ cur[a] \in 1..Len(Stack(a))
  /\ Stack(a)[cur[a]].name = name

\* res.send / res.json: response r goes out and the cycle ends
Send(a, r, events) ==
  /\ res' = [res EXCEPT ![a] = r]
  /\ cur' = [cur EXCEPT ![a] = Responded]
  /\ trace' = [trace EXCEPT ![a] = @ \o events \o <<"res.end">>]
  /\ UNCHANGED err

\* next() (e = NoErr) or next(e): control goes to the next layer that takes
\* the request
CallNext(a, e, events) ==
  /\ cur' = [cur EXCEPT ![a] = NextLayer(Stack(a), cur[a] + 1, req[a], e)]
  /\ err' = [err EXCEPT ![a] = e]
  /\ trace' = [trace EXCEPT ![a] = @ \o events]
  /\ UNCHANGED res

\* a synchronous handler sends response r and returns
Respond(a, r, events) == Send(a, r, events) /\ UNCHANGED <<pend, sessVars, appVars>>

\* a synchronous handler calls next() or next(e)
PassOn(a, e, events) == CallNext(a, e, events) /\ UNCHANGED <<pend, sessVars, appVars>>

\* a request reaches the application
Arrive(a, r) ==
  /\ cur[a] = 0
  /\ req' = [req EXCEPT ![a] = r]
  /\ cur' = [cur EXCEPT ![a] = NextLayer(Stack(a), 1, r, NoErr)]
  /\ UNCHANGED <<err, res, trace, pend, sessVars, appVars>>

\* err.status || 500
ErrStatus(e) == IF e = "ENOENT" THEN 404 ELSE 500

\* Express's final handler: 404 when no layer answered, the error's status and
\* its stack (or, in production, the status text) when an error reached the end
FinalHandler(a) ==
  /\ cur[a] = Len(Stack(a)) + 1
  /\ IF err[a] = NoErr
     THEN Respond(a, SendText(404, <<"Cannot ", req[a].method, " ", req[a].path>>), <<"finalhandler">>)
     ELSE \E env \in {"development", "production"} :
            Respond(a, SendText(ErrStatus(err[a]),
                                IF env = "production" THEN <<"Internal Server Error">>
                                ELSE <<"stack of ", err[a]>>),
                    <<"finalhandler">>)
  /\ UNCHANGED req

\* the response has gone out; the application is ready for the next request
Complete(a) ==
  /\ cur[a] = Responded
  /\ req' = [req EXCEPT ![a] = IdleReq]
  /\ cur' = [cur EXCEPT ![a] = 0]
  /\ err' = [err EXCEPT ![a] = NoErr]
  /\ res' = [res EXCEPT ![a] = NoRes]
  /\ trace' = [trace EXCEPT ![a] = <<>>]
  /\ UNCHANGED <<pend, sessVars, appVars>>

InTrace(a, ev) == \E i \in 1..Len(trace[a]) : trace[a][i] = ev

----------------------------------------------------------------------------
(* Workouts: the handlers *)

WorkoutsArrive ==
  \E m \in Methods, p \in WorkoutsPaths, h \in WorkoutsHeaders, present \in BOOLEAN :
    /\ (~present => h = <<>>)
    /\ Arrive("workouts", [method |-> m, path |-> p, auth |-> h, hasAuth |-> present,
                           user |-> Undefined, query |-> Undefined])

VerifyToken ==
  LET a == "workouts"
      r == req[a]
      token == BearerField(r.auth)
  IN /\ At(a, "verifyToken")
     /\ IF TokenMissing(r)
        THEN /\ Respond(a, SendJson(403, "Access denied, token missing", Undefined),
                        <<"verifyToken">>)
             /\ UNCHANGED req
        ELSE IF JwtThrows(token, SECRET_KEY)
        THEN /\ Respond(a, SendJson(401, "Invalid token", Undefined), <<"verifyToken">>)
             /\ UNCHANGED req
        ELSE /\ req' = [req EXCEPT ![a].user = JwtVerify(token, SECRET_KEY)]
             /\ PassOn(a, NoErr, <<"verifyToken", "verifyToken.next">>)

ProfileHandler ==
  /\ At("workouts", "profileHandler")
  /\ Respond("workouts", SendJson(200, "Profile data", req["workouts"].user),
             <<"profileHandler">>)
  /\ UNCHANGED req

PrintDate ==
  /\ At("workouts", "printDate")
  /\ PassOn("workouts", NoErr, <<"printDate", "console.log", "printDate.next">>)
  /\ UNCHANGED req

Home ==
  /\ At("workouts", "home")
  /\ Respond("workouts", SendText(200, <<"<h1>Home</h1>">>), <<"home">>)
  /\ UNCHANGED req

Contact ==
  /\ At("workouts", "contact")
  /\ Respond("workouts", SendJson(200, "Contact", Undefined), <<"contact">>)
  /\ UNCHANGED req

\* res.render("about"): the rendered view, or the view's error handed to next
About ==
  /\ At("workouts", "about")
  /\ \E ok \in BOOLEAN :
       IF ok THEN Respond("workouts", SendText(200, <<"about.ejs">>), <<"about">>)
       ELSE PassOn("workouts", "ViewError", <<"about">>)
  /\ UNCHANGED req

\* res.sendFile(blog.html): the file, or the file's error handed to next
Blog ==
  /\ At("workouts", "blog")
  /\ \E ok \in BOOLEAN :
       IF ok THEN Respond("workouts", SendText(200, <<"blog.html">>), <<"blog">>)
       ELSE PassOn("workouts", "ENOENT", <<"blog">>)
  /\ UNCHANGED req

CatchAll ==
  /\ At("workouts", "catchAll")
  /\ Respond("workouts", SendText(404, <<"<h1>404</h1>">>), <<"catchAll">>)
  /\ UNCHANGED req

----------------------------------------------------------------------------
(* Error handling: the handlers *)

ErrArrive(a) ==
  \E m \in Methods, p \in ErrPaths(a) :
    Arrive(a, [method |-> m, path |-> p, auth |-> <<>>, hasAuth |-> FALSE,
               user |-> Undefined, query |-> Undefined])

\* app.get('/', ...) { throw new Error('Error in the root route') }: Express
\* catches what a handler throws and hands it to next(err)
RootThrows ==
  /\ At("errbasic", "rootThrows")
  /\ PassOn("errbasic", "Error in the root route", <<"rootThrows", "throw">>)
  /\ UNCHANGED req

\* app.use((err, req, res, next) => ...)
ErrorMiddleware(a) ==
  /\ At(a, "errorMw")
  /\ Respond(a, SendText(500, <<ErrMwText(a)>>),
             <<"errorMw">> \o (IF ErrMwLogs(a) THEN <<"console.error(err.stack)">> ELSE <<>>))
  /\ UNCHANGED req

\* .then(result => res.send(result)), and res.send(result) after the await
ThenHandler(a) == Send(a, SendText(200, <<"result">>), <<"fulfilled", "res.send(result)">>)

\* a slip: the rejection is logged and dropped
CatchHandlerSwallows(a, e) ==
  /\ trace' = [trace EXCEPT ![a] = @ \o <<"rejected", "console.error">>]
  /\ UNCHANGED <<cur, err, res>>

\* .catch(error => next(error)), and the catch block around the await
CatchHandler(a, e) == CallNext(a, e, <<"rejected", "next(error)">>)

\* the handler calls someAsyncOperation(): it returns a promise, which the
\* handler leaves pending, or throws before returning one.  The promise route
\* lets the throw escape to Express, the async/await route catches it.
AsyncStart(a, name) ==
  /\ At(a, name)
  /\ pend[a] = NoPend
  /\ \E threw \in BOOLEAN :
       IF threw
       THEN IF name = "asyncError"
            THEN PassOn(a, "async failure", <<name, "someAsyncOperation", "throw">>)
            ELSE PassOn(a, "async failure",
                        <<name, "someAsyncOperation", "throw", "next(error)">>)
       ELSE /\ pend' = [pend EXCEPT ![a] = name]
            /\ trace' = [trace EXCEPT ![a] = @ \o <<name, "someAsyncOperation">>]
            /\ UNCHANGED <<cur, err, res, sessVars, appVars>>
  /\ UNCHANGED req

\* the promise settles: .then(result => res.send(result)) or
\* .catch(error => next(error)); after await, res.send(result) or the catch block
AsyncSettle(a) ==
  /\ pend[a] # NoPend
  /\ \E fulfilled \in BOOLEAN :
       IF fulfilled THEN ThenHandler(a) ELSE CatchHandler(a, "async failure")
  /\ pend' = [pend EXCEPT ![a] = NoPend]
  /\ UNCHANGED <<req, sessVars, appVars>>

----------------------------------------------------------------------------
(* Role-based authorization: the handlers *)

RolesArrive ==
  \E m \in Methods, p \in RolesPaths, u \in RoleUsers :
    Arrive("roles", [method |-> m, path |-> p, auth |-> <<>>, hasAuth |-> FALSE,
                     user |-> u, query |-> Undefined])

\* the middleware roleAuthorization(roles) returns, as handler `name`
RoleAuthorization(name, roles) ==
  /\ At("roles", name)
  /\ IF Forbidden(roles, req["roles"].user)
       THEN Respond("roles",
                    SendText(403, <<"Forbidden: You do not have permission to access this resource.">>),
                    <<name>>)
       ELSE PassOn("roles", NoErr, <<name, name \o ".next">>)
  /\ UNCHANGED req

Admin ==
  /\ At("roles", "admin")
  /\ Respond("roles", SendText(200, <<"Welcome to the admin dashboard!">>), <<"admin">>)
  /\ UNCHANGED req

Edit ==
  /\ At("roles", "edit")
  /\ Respond("roles", SendText(200, <<"Content edited successfully!">>), <<"edit">>)
  /\ UNCHANGED req

View ==
  /\ At("roles", "view")
  /\ Respond("roles", SendText(200, <<"Viewing content.">>), <<"view">>)
  /\ UNCHANGED req

----------------------------------------------------------------------------
(* Custom middleware: the handlers *)

\* a client sends its requests to the examples one after the other
MwArrive(a) ==
  \E m \in Methods, p \in MwPaths, q \in MwTokens(a) :
    /\ \A b \in MwApps : cur[b] = 0
    /\ Arrive(a, [method |-> m, path |-> p, auth |-> <<>>, hasAuth |-> FALSE,
                  user |-> Undefined, query |-> q])

LogRequestDetails ==
  /\ At("mwlog", "logRequestDetails")
  /\ PassOn("mwlog", NoErr, <<"logRequestDetails", "console.log", "logRequestDetails.next">>)
  /\ UNCHANGED req

CheckToken ==
  /\ At("mwtoken", "checkToken")
  /\ IF HasToken(req["mwtoken"].query)
       THEN PassOn("mwtoken", NoErr, <<"checkToken", "console.log", "checkToken.next">>)
       ELSE Respond("mwtoken", SendText(401, <<"Unauthorized: Token is missing">>),
                    <<"checkToken">>)
  /\ UNCHANGED req

LogAndAddHeader ==
  /\ At("mwheader", "logAndAddHeader")
  /\ PassOn("mwheader", NoErr,
            <<"logAndAddHeader", "console.log", "res.setHeader", "logAndAddHeader.next">>)
  /\ UNCHANGED req

AddTimestamp ==
  /\ At("mwstamp", "addTimestamp")
  /\ PassOn("mwstamp", NoErr, <<"addTimestamp", "req.timestamp", "addTimestamp.next">>)
  /\ UNCHANGED req

MwHome(a) ==
  /\ At(a, "home")
  /\ Respond(a, SendText(200, MwHomeText(a)), <<"home">>)
  /\ UNCHANGED req

MwAbout ==
  /\ At("mwheader", "about")
  /\ Respond("mwheader", SendText(200, <<"About Page with a Custom Header">>), <<"about">>)
  /\ UNCHANGED req

----------------------------------------------------------------------------
(* Several handlers in a row: the handlers *)

\* a client sends its requests to the examples one after the other
ChainArrive(a) ==
  \E m \in Methods, p \in ChainPaths(a), q \in ChainQueries(a) :
    /\ \A b \in ChainApps : cur[b] = 0
    /\ Arrive(a, [method |-> m, path |-> p, auth |-> <<>>, hasAuth |-> FALSE,
                  user |-> Undefined, query |-> q])

\* a handler that logs a line and calls next()
LogAndNext(a, name) ==
  /\ At(a, name)
  /\ PassOn(a, NoErr, <<name, "console.log", name \o ".next">>)
  /\ UNCHANGED req

\* a handler that calls next() when pass holds and otherwise sends the refusal
PassOrRefuse(a, name, pass, status, text) ==
  /\ At(a, name)
  /\ IF pass THEN PassOn(a, NoErr, <<name, name \o ".next">>)
             ELSE Respond(a, SendText(status, <<text>>), <<name>>)
  /\ UNCHANGED req

\* the last handler of the route
SendPage(a, name, text) ==
  /\ At(a, name)
  /\ Respond(a, SendText(200, <<text>>), <<name>>)
  /\ UNCHANGED req

CheckAuth ==
  PassOrRefuse("multi", "checkAuth", AuthTrue(req["multi"].query), 401, "Unauthorized")
LogDetails == LogAndNext("multi", "logDetails")
ProfilePage == SendPage("multi", "profilePage", "User Profile Page")

----------------------------------------------------------------------------
(* Testing/unit.testing.md: authMiddleware *)

UnitArrive ==
  \E m \in Methods, p \in UnitPaths, h \in UnitHeaders, present \in BOOLEAN :
    /\ (~present => h = <<>>)
    /\ Arrive("unitauth", [method |-> m, path |-> p, auth |-> h, hasAuth |-> present,
                           user |-> Undefined, query |-> Undefined])

AuthMiddleware ==
  LET a == "unitauth"
  IN /\ At(a, "authMiddleware")
     /\ IF HeaderTruthy(req[a])
        THEN /\ req' = [req EXCEPT ![a].user = SimulatedUser]
             /\ PassOn(a, NoErr, <<"authMiddleware", "authMiddleware.next">>)
        ELSE /\ Respond(a, SendJson(401, "Unauthorized", Undefined), <<"authMiddleware">>)
             /\ UNCHANGED req

----------------------------------------------------------------------------
(* Authentication-Authorization/authentication.md: the JWT example *)

secretKey == "yourSecretKey"
\* expiresIn: '1h', the clock counts hours
OneHour == 1
\* how far the clock runs and how many users register
MaxClock == 1
MaxUsers == 2

JwtUsernames == {"ann", "bob"}
\* the password of a request body; Undefined when the body has none
JwtPasswords == {"pw1", "pw2", Undefined}

\* bcrypt.hash(password, 10): a salt no earlier hash has and the digest of salt and
\* password
FreshSalt(us) == Len(us) + 1
BcryptHash(p, salt) == [salt |-> salt, digest |-> <<salt, p>>]
BcryptCompareAlways(p, h) == TRUE
\* bcrypt.compare(password, hash): hashes the password with the salt of the hash
BcryptCompare(p, h) == h.digest = <<h.salt, p>>
\* bcrypt.hash and bcrypt.compare reject what is not a string
BcryptRejects(p) == p = Undefined

\* users.find(u => u.username === username): the index of the first match, 0 when none
RECURSIVE FindFrom(_, _, _)
FindFrom(us, u, i) ==
  IF i > Len(us) THEN 0
  ELSE IF us[i].username = u THEN i
  ELSE FindFrom(us, u, i + 1)
FindIndex(us, u) == FindFrom(us, u, 1)

\* What an Authorization header holds: nothing, the empty string, a token, the
\* word Bearer before a token, or other text.  A token is the payload, the key
\* it was signed with and the hour it expires.
NoToken == [kind |-> "missing", username |-> Undefined, key |-> Undefined, exp |-> 0]
EmptyHeader == [kind |-> "empty", username |-> Undefined, key |-> Undefined, exp |-> 0]
GarbageHeader == [kind |-> "garbage", username |-> Undefined, key |-> Undefined, exp |-> 0]
\* jwt.sign({ username }, key, { expiresIn: '1h' }) at hour t
JwtSign(u, key, t) == [kind |-> "jwt", username |-> u, key |-> key, exp |-> t + OneHour]
WithBearer(t) == [t EXCEPT !.kind = "bearer"]
\* tokens somebody else signed: any payload and expiry, never the server's key
ForgedTokens == {JwtSign(u, "otherKey", t) : u \in JwtUsernames, t \in 0..MaxClock}
\* the headers a client can send at a moment
JwtHeaders(iss) ==
  {NoToken, EmptyHeader, GarbageHeader} \cup iss \cup ForgedTokens
    \cup {WithBearer(t) : t \in iss}

\* !token
HeaderMissing(h) == h.kind \in {"missing", "empty"}
\* jwt.verify(token, key, callback) calls back with an error: not a token, another
\* signature, or expired
JwtVerifyFails(h, key, t) == h.kind # "jwt" \/ h.key # key \/ t >= h.exp

NoJwtLast == [op |-> "none", username |-> Undefined, password |-> Undefined,
              header |-> NoToken, at |-> 0, status |-> 0, text |-> <<>>,
              token |-> NoToken]

JwtOthers == <<dispVars, sessVars, crudVars, cacheVars, clusterVars, socketVars, prodVars, saveVars>>

\* what the request leaves behind: status 0 when no answer was sent
JwtAnswer(op, u, p, h, status, text, token) ==
  jwtLast' = [op |-> op, username |-> u, password |-> p, header |-> h, at |-> now,
              status |-> status, text |-> text, token |-> token]

\* app.post('/register')
JwtRegister(u, p) ==
  /\ Len(users) < MaxUsers
  /\ IF BcryptRejects(p)
       THEN \* the awaited promise rejects: nothing is pushed, nothing is sent
            /\ JwtAnswer("register", u, p, NoToken, 0, <<>>, NoToken)
            /\ UNCHANGED users
       ELSE /\ users' = Append(users, [username |-> u,
                                    password |-> BcryptHash(p, FreshSalt(users))])
            /\ JwtAnswer("register", u, p, NoToken, 200, <<"User registered">>, NoToken)
  /\ UNCHANGED <<issued, now, JwtOthers>>

\* app.post('/login')
JwtLogin(u, p) ==
  LET i == FindIndex(users, u) IN
  /\ IF i = 0
       THEN /\ JwtAnswer("login", u, p, NoToken, 401, <<"Invalid credentials">>, NoToken)
            /\ UNCHANGED issued
       ELSE IF BcryptRejects(p)
       THEN /\ JwtAnswer("login", u, p, NoToken, 0, <<>>, NoToken)
            /\ UNCHANGED issued
       ELSE IF BcryptCompare(p, users[i].password)
       THEN LET token == JwtSign(users[i].username, secretKey, now) IN
            /\ JwtAnswer("login", u, p, NoToken, 200, <<>>, token)
            /\ issued' = issued \cup {token}
       ELSE /\ JwtAnswer("login", u, p, NoToken, 401, <<"Invalid credentials">>, NoToken)
            /\ UNCHANGED issued
  /\ UNCHANGED <<users, now, JwtOthers>>

\* app.get('/protected')
Protected(h) ==
  /\ h \in JwtHeaders(issued)
  /\ IF HeaderMissing(h)
       THEN JwtAnswer("protected", Undefined, Undefined, h, 403, <<"Forbidden">>, NoToken)
       ELSE IF JwtVerifyFails(h, secretKey, now)
       THEN JwtAnswer("protected", Undefined, Undefined, h, 403, <<"Forbidden">>, NoToken)
       ELSE JwtAnswer("protected", Undefined, Undefined, h, 200,
                      <<"Hello, ", h.username, "! This is a protected route.">>, NoToken)
  /\ UNCHANGED <<users, issued, now, JwtOthers>>

\* an hour passes
HourPasses ==
  /\ now < MaxClock
  /\ now' = now + 1
  /\ UNCHANGED <<users, issued, jwtLast, JwtOthers>>

----------------------------------------------------------------------------
(* unnamed/part_014: the users API (CRUD router, pagination, sorting) *)

\* how many documents are ever created
MaxIds == 3
\* an ObjectId no document ever gets, and a string that is no ObjectId
NeverId == 0
MalformedId == -1
\* req.params.id
RequestIds == 1..MaxIds \cup {NeverId, MalformedId}

Ages == {20, 30}
\* req.body: an age the schema's Number takes, or one it cannot cast
UserBodies == [castable : {TRUE}, age : Ages] \cup {[castable |-> FALSE, age |-> 0]}

Doc(id, age) == [id |-> id, age |-> age]

\* the position of the document with _id id in the collection, 0 when none
RECURSIVE IndexOfId(_, _, _)
IndexOfId(d, id, i) ==
  IF i > Len(d) THEN 0
  ELSE IF d[i].id = id THEN i
  ELSE IndexOfId(d, id, i + 1)

RemoveAtKeeps(d, i) == d
\* the collection without its i-th document
RemoveAt(d, i) == SubSeq(d, 1, i - 1) \o SubSeq(d, i + 1, Len(d))

\* what a request leaves behind; status 0 before any request
NoULast == [op |-> "none", id |-> NeverId, status |-> 0, message |-> Undefined,
            docs |-> <<>>, changed |-> FALSE, down |-> FALSE, gone |-> FALSE,
            page |-> Undefined, limit |-> Undefined, sort |-> Undefined,
            totalUsers |-> 0, totalPages |-> 0, currentPage |-> 0, perPage |-> 0]

CrudOthers == <<dispVars, sessVars, jwtVars, cacheVars, clusterVars, socketVars, prodVars, saveVars>>

\* res.status(status).json(docs) or .json({ message }) for a request on id;
\* gone: a DELETE had answered 204 for the id before this request
Answer(op, id, status, message, docs, changed, down) ==
  ulast' = [NoULast EXCEPT !.op = op, !.id = id, !.status = status,
                           !.message = message, !.docs = docs,
                           !.changed = changed, !.down = down,
                           !.gone = id \in deleted]

\* router.post('/users'): save() fails when the body cannot be cast or the
\* database cannot be reached
CreateUser(body, down) ==
  /\ nextId <= MaxIds
  /\ IF ~body.castable \/ down
       THEN /\ Answer("create", NeverId, 400, "err.message", <<>>, FALSE, down)
            /\ UNCHANGED <<db, nextId, created>>
       ELSE /\ db' = Append(db, Doc(nextId, body.age))
            /\ nextId' = nextId + 1
            /\ created' = created \cup {nextId}
            /\ Answer("create", nextId, 201, Undefined, <<Doc(nextId, body.age)>>, TRUE, down)
  /\ UNCHANGED <<deleted, CrudOthers>>

\* router.get('/users')
ReadUsers(down) ==
  /\ IF down THEN Answer("readAll", NeverId, 500, "err.message", <<>>, FALSE, down)
             ELSE Answer("readAll", NeverId, 200, Undefined, db, FALSE, down)
  /\ UNCHANGED <<db, nextId, created, deleted, CrudOthers>>

\* router.get('/users/:id'): findById throws a CastError on a malformed id
ReadUser(id, down) ==
  LET i == IndexOfId(db, id, 1) IN
  /\ IF id = MalformedId \/ down
       THEN Answer("readOne", id, 500, "err.message", <<>>, FALSE, down)
       ELSE IF i = 0
       THEN Answer("readOne", id, 404, "User not found", <<>>, FALSE, down)
       ELSE Answer("readOne", id, 200, Undefined, <<db[i]>>, FALSE, down)
  /\ UNCHANGED <<db, nextId, created, deleted, CrudOthers>>

\* router.put('/users/:id'): findByIdAndUpdate(id, body, { new: true })
UpdateUser(id, body, down) ==
  LET i == IndexOfId(db, id, 1) IN
  /\ IF id = MalformedId \/ ~body.castable \/ down
       THEN /\ Answer("update", id, 400, "err.message", <<>>, FALSE, down)
            /\ UNCHANGED db
       ELSE IF i = 0
       THEN /\ Answer("update", id, 404, "User not found", <<>>, FALSE, down)
            /\ UNCHANGED db
       ELSE /\ db' = [db EXCEPT ![i].age = body.age]
            /\ Answer("update", id, 200, Undefined, <<Doc(id, body.age)>>,
                      db[i].age # body.age, down)
  /\ UNCHANGED <<nextId, created, deleted, CrudOthers>>

\* router.delete('/users/:id'): findByIdAndDelete
DeleteUser(id, down) ==
  LET i == IndexOfId(db, id, 1) IN
  /\ IF id = MalformedId \/ down
       THEN /\ Answer("delete", id, 500, "err.message", <<>>, FALSE, down)
            /\ UNCHANGED <<db, deleted>>
       ELSE IF i = 0
       THEN /\ Answer("delete", id, 404, "User not found", <<>>, FALSE, down)
            /\ UNCHANGED <<db, deleted>>
       ELSE /\ db' = RemoveAt(db, i)
            /\ deleted' = deleted \cup {id}
            /\ Answer("delete", id, 204, Undefined, <<>>, TRUE, down)
  /\ UNCHANGED <<nextId, created, CrudOthers>>

\* find().sort({ [field]: 1 }): the documents in an order in which the values
\* of the field ascend; documents that agree on the field, and all documents
\* when none has the field, come in an order MongoDB does not specify
Perms(n) == {f \in [1..n -> 1..n] : \A i, j \in 1..n : i # j => f[i] # f[j]}
\* a document's value of the field; the schema has age, any other name is of no
\* document (null)
FieldOf(doc, field) == IF field = "age" THEN doc.age ELSE 0
SortedBy(d, field) ==
  {r \in {[i \in 1..Len(d) |-> d[f[i]]] : f \in Perms(Len(d))} :
     \A i \in 1..Len(r) - 1 : FieldOf(r[i], field) <= FieldOf(r[i + 1], field)}

\* req.query.sort
SortQueries == {Undefined, "", "age", "-age"}

\* router.get('/users') of "Example of Sorting":
\* req.query.sort ? { [req.query.sort]: 1 } : {}
SortUsers(q, down) ==
  /\ IF down
       THEN ulast' = [NoULast EXCEPT !.op = "sorted", !.sort = q, !.status = 500,
                                     !.message = "err.message", !.down = TRUE]
       ELSE \E r \in (IF Falsy(q) THEN {db} ELSE SortedBy(db, q)) :
              ulast' = [NoULast EXCEPT !.op = "sorted", !.sort = q, !.status = 200,
                                       !.docs = r]
  /\ UNCHANGED <<db, nextId, created, deleted, CrudOthers>>

\* req.query.page and req.query.limit: absent, or the text after the equals sign
PageQueries == {Undefined, "abc", "2abc", "0", "1", "2", "3", "-1"}
LimitQueries == {Undefined, "abc", "0", "1", "2", "-1"}

\* parseInt(text): the leading integer of the text, NaN when it has none
NaN == [nan |-> TRUE, val |-> 0]
Parsed(n) == [nan |-> FALSE, val |-> n]
ParseInt(t) ==
  CASE t = "0" -> Parsed(0)
    [] t = "1" -> Parsed(1)
    [] t = "2" -> Parsed(2)
    [] t = "2abc" -> Parsed(2)
    [] t = "3" -> Parsed(3)
    [] t = "-1" -> Parsed(-1)
    [] OTHER -> NaN

DefaultPage == 1
DefaultLimit == 10
\* parsed || default: NaN and 0 are falsy
OrDefault(r, d) == IF r.nan \/ r.val = 0 THEN d ELSE r.val

\* Math.ceil(a / b) for a >= 0 and b # 0
Ceil(a, b) == IF b > 0 THEN (a + b - 1) \div b ELSE -(a \div (-b))

Abs(n) == IF n < 0 THEN -n ELSE n
\* limit(n): a negative limit is sent as its absolute value
LimitSent(n) == Abs(n)
\* find().skip(skip).limit(limit), for skip >= 0
SkipLimit(d, skip, limit) ==
  LET to == IF skip + LimitSent(limit) < Len(d) THEN skip + LimitSent(limit) ELSE Len(d)
  IN SubSeq(d, skip + 1, to)

\* router.get('/users') of "Example of Pagination"; MongoDB refuses a negative skip
PageUsers(pq, lq, down) ==
  LET page == OrDefault(ParseInt(pq), DefaultPage)
      limit == OrDefault(ParseInt(lq), DefaultLimit)
      skip == (page - 1) * limit
      asked == [NoULast EXCEPT !.op = "page", !.page = pq, !.limit = lq,
                               !.currentPage = page, !.perPage = limit, !.down = down]
  IN
  /\ IF down \/ skip < 0
       THEN ulast' = [asked EXCEPT !.status = 500, !.message = "err.message"]
       ELSE ulast' = [asked EXCEPT !.status = 200,
                                   !.docs = SkipLimit(db, skip, limit),
                                   !.totalUsers = Len(db),
                                   !.totalPages = Ceil(Len(db), limit)]
  /\ UNCHANGED <<db, nextId, created, deleted, CrudOthers>>

----------------------------------------------------------------------------
(* Optimization/optimizing.express.md: caching GET /data in Redis *)

cacheKey == "myData"
\* setex(cacheKey, 3600, ...): the seconds an entry lives
Ttl == 3600
\* the clock moves in steps of half the time-to-live, MaxTicks steps in all
Tick == Ttl \div 2
MaxTicks == 3
\* how many SETEX commands are on their way at a time
MaxSetex == 2
Now == clock * Tick

\* { message: 'This is the fetched data.' }
FetchedData == [message |-> "This is the fetched data."]
\* JSON.stringify and JSON.parse of an object with a message
JsonStringify(o) == <<"{", "message", ":", o.message, "}">>
JsonParse(t) == [message |-> t[4]]

\* Redis holds nothing under the key
NoEntry == [key |-> Undefined, value |-> <<>>, stored |-> 0, expires |-> 0]
\* SETEX key seconds value at time t
Setex(key, seconds, value, t) ==
  [key |-> key, value |-> value, stored |-> t, expires |-> t + seconds]

RedisGetStale(e, key, t) == IF e.key = key THEN e.value ELSE <<>>
\* GET key at time t: the value while the entry lives, null (here <<>>) otherwise
RedisGet(e, key, t) == IF e.key = key /\ t < e.expires THEN e.value ELSE <<>>

NoDLast == [kind |-> "none", body |-> [message |-> Undefined], age |-> 0,
            fetched |-> FALSE]

CacheOthers == <<dispVars, sessVars, jwtVars, crudVars, clusterVars, socketVars, prodVars, saveVars>>

\* app.get('/data'): the handler sends GET to Redis and returns
GetData(c) ==
  /\ up
  /\ c \notin waiting
  /\ waiting' = waiting \cup {c}
  /\ UNCHANGED <<redis, clock, setex, up, dlast, CacheOthers>>

\* the callback of redisClient.get: it throws the error, or answers with the
\* cached copy, or fetches, sends SETEX on its way and answers with what it
\* fetched
GetReply(c, failed) ==
  LET data == RedisGet(redis, cacheKey, Now) IN
  /\ up
  /\ c \in waiting
  /\ IF failed
       THEN \* throw err in a callback: nothing catches it, the process ends
            /\ up' = FALSE
            /\ waiting' = {}
            /\ UNCHANGED <<setex, dlast>>
       ELSE IF data # <<>>
       THEN /\ dlast' = [kind |-> "hit", body |-> JsonParse(data),
                         age |-> Now - redis.stored, fetched |-> FALSE]
            /\ waiting' = waiting \ {c}
            /\ UNCHANGED <<setex, up>>
       ELSE /\ setex < MaxSetex
            /\ dlast' = [kind |-> "miss", body |-> FetchedData, age |-> 0,
                         fetched |-> TRUE]
            /\ setex' = setex + 1
            /\ waiting' = waiting \ {c}
            /\ UNCHANGED up
  /\ UNCHANGED <<redis, clock, CacheOthers>>

\* Redis executes a SETEX that was on its way
SetexArrives ==
  /\ setex > 0
  /\ setex' = setex - 1
  /\ redis' = Setex(cacheKey, Ttl, JsonStringify(FetchedData), Now)
  /\ UNCHANGED <<clock, waiting, up, dlast, CacheOthers>>

\* time passes
TickPasses ==
  /\ clock < MaxTicks
  /\ clock' = clock + 1
  /\ UNCHANGED <<redis, waiting, setex, up, dlast, CacheOthers>>

\* the server is started again
Restart ==
  /\ ~up
  /\ up' = TRUE
  /\ UNCHANGED <<redis, clock, waiting, setex, dlast, CacheOthers>>

----------------------------------------------------------------------------
(* Optimization/concurrency.clustering.md: the cluster example *)

\* require('os').cpus().length
NumCPUs == 2
\* how many connections a worker holds at a time
MaxConns == 1
\* the workers, named by their process ids
Workers == 1..NumCPUs

ClusterOthers == <<dispVars, sessVars, jwtVars, crudVars, cacheVars, socketVars, prodVars, saveVars>>

\* for (let i = 0; i < numCPUs; i++) cluster.fork(): the master forks the
\* workers one after the other
Fork(w) ==
  /\ worker[w] = "none"
  /\ \A v \in Workers : v < w => worker[v] # "none"
  /\ worker' = [worker EXCEPT ![w] = "forked"]
  /\ UNCHANGED <<conns, exits, clog, hello, ClusterOthers>>

\* app.listen(3000, ...) in a worker and its callback
Listen(w) ==
  /\ worker[w] = "forked"
  /\ worker' = [worker EXCEPT ![w] = "listening"]
  /\ clog' = Append(clog, <<"Worker ", w, " started">>)
  /\ UNCHANGED <<conns, exits, hello, ClusterOthers>>

\* a connection to port 3000 is handed to one of the listening workers
Connect(w) ==
  /\ worker[w] = "listening"
  /\ conns[w] < MaxConns
  /\ conns' = [conns EXCEPT ![w] = @ + 1]
  /\ UNCHANGED <<worker, exits, clog, hello, ClusterOthers>>

\* app.get('/') in worker w
Hello(w) ==
  /\ worker[w] = "listening"
  /\ conns[w] > 0
  /\ conns' = [conns EXCEPT ![w] = @ - 1]
  /\ hello' = [by |-> w, text |-> <<"Hello from Worker ", w>>,
               dead |-> {v \in Workers : worker[v] = "dead"}]
  /\ UNCHANGED <<worker, exits, clog, ClusterOthers>>

ExitStopsAll(st, w) == [v \in Workers |-> IF st[v] = "none" THEN "none" ELSE "dead"]
\* the workers after worker w's process ended: the others are separate processes
ExitOf(st, w) == [st EXCEPT ![w] = "dead"]

\* a worker process ends: its connections are lost, the master gets 'exit'
WorkerExit(w) ==
  /\ worker[w] \in {"forked", "listening"}
  /\ worker' = ExitOf(worker, w)
  /\ conns' = [v \in Workers |-> IF worker'[v] = "dead" THEN 0 ELSE conns[v]]
  /\ exits' = exits \cup {v \in Workers : worker'[v] = "dead" /\ worker[v] # "dead"}
  /\ UNCHANGED <<clog, hello, ClusterOthers>>

\* a slip: the 'exit' handler forks a worker in place of the one that died
OnExitReforks(w) ==
  /\ w \in exits
  /\ exits' = exits \ {w}
  /\ clog' = Append(clog, <<"Worker ", w, " died">>)
  /\ worker' = [worker EXCEPT ![w] = "forked"]
  /\ UNCHANGED <<conns, hello, ClusterOthers>>

\* cluster.on('exit', (worker, code, signal) => console.log(...)) in the master
OnExit(w) ==
  /\ w \in exits
  /\ exits' = exits \ {w}
  /\ clog' = Append(clog, <<"Worker ", w, " died">>)
  /\ UNCHANGED <<worker, conns, hello, ClusterOthers>>

----------------------------------------------------------------------------
(* WebSockets/socket.io.md: the Socket.io example *)

\* how many messages the clients emit in all
MaxEmits == 2
\* the sockets, named by their socket.id; a client that reconnects gets a new
\* socket
SocketIds == {"s1", "s2"}

SocketOthers == <<dispVars, sessVars, jwtVars, crudVars, cacheVars, clusterVars, prodVars, saveVars>>

\* the data of a message: the text the client sends, told apart by who emitted
\* it and which of the emitted messages it is
Data(c, n) == [from |-> c, n |-> n]

NoData == Data("", 0)

\* a packet on the wire: an event with its data, or the close of the socket
Packet(ev, d) == [ev |-> ev, data |-> d]

\* a line of the server's console
Line(what, c, d) == [what |-> what, id |-> c, data |-> d]

\* socket.broadcast.emit: the sockets connected to the server but the sender
BroadcastTo(st, sender) == {c \in SocketIds : st[c] = "connected"} \ {sender}

\* io.emit: the sockets connected to the server
EmitTo(st, sender) == {c \in SocketIds : st[c] = "connected"}

\* const socket = io(): the client opens a socket to the server
Io(c) ==
  /\ client[c] = "none"
  /\ client' = [client EXCEPT ![c] = "active"]
  /\ UNCHANGED <<socks, upq, downq, inbox, slog, emitted, SocketOthers>>

\* socket.emit('message', ...): the client sends a message; the packet waits in
\* the socket's buffer until the server has accepted the connection
ClientEmit(c) ==
  /\ client[c] = "active"
  /\ emitted < MaxEmits
  /\ emitted' = emitted + 1
  /\ upq' = [upq EXCEPT ![c] = Append(@, Packet("message", Data(c, emitted + 1)))]
  /\ UNCHANGED <<client, socks, downq, inbox, slog, SocketOthers>>

\* the client leaves: its socket closes, after the packets it has sent
ClientDisconnect(c) ==
  /\ client[c] = "active"
  /\ client' = [client EXCEPT ![c] = "closed"]
  /\ upq' = [upq EXCEPT ![c] = Append(@, Packet("disconnect", NoData))]
  /\ UNCHANGED <<socks, downq, inbox, slog, emitted, SocketOthers>>

\* io.on('connection', (socket) => ...): the server accepts the socket, logs it
\* and registers the two listeners
Connection(c) ==
  /\ client[c] = "active"
  /\ socks[c] = "none"
  /\ socks' = [socks EXCEPT ![c] = "connected"]
  /\ slog' = Append(slog, Line("A user connected:", c, NoData))
  /\ UNCHANGED <<client, upq, downq, inbox, emitted, SocketOthers>>

\* socket.on('message', (data) => ...): the server logs the data and emits it to
\* all connected sockets
OnMessage(c) ==
  /\ socks[c] = "connected"
  /\ upq[c] # <<>>
  /\ Head(upq[c]).ev = "message"
  /\ LET data == Head(upq[c]).data
     IN /\ slog' = Append(slog, Line("Message received:", c, data))
        /\ downq' = [r \in SocketIds |->
                       IF r \in EmitTo(socks, c)
                       THEN Append(downq[r], Packet("message", data))
                       ELSE downq[r]]
  /\ upq' = [upq EXCEPT ![c] = Tail(@)]
  /\ UNCHANGED <<client, socks, inbox, emitted, SocketOthers>>

\* socket.on('disconnect', () => ...): the socket has left the server's sockets
\* when the listener logs it
OnDisconnect(c) ==
  /\ socks[c] = "connected"
  /\ upq[c] # <<>>
  /\ Head(upq[c]).ev = "disconnect"
  /\ socks' = [socks EXCEPT ![c] = "gone"]
  /\ slog' = Append(slog, Line("User disconnected:", c, NoData))
  /\ upq' = [upq EXCEPT ![c] = Tail(@)]
  /\ UNCHANGED <<client, downq, inbox, emitted, SocketOthers>>

\* socket.on('message', (data) => ...) at the client: a packet that reaches a
\* client whose socket is open is given to the listener
ClientOnMessage(c) ==
  /\ client[c] = "active"
  /\ downq[c] # <<>>
  /\ inbox' = [inbox EXCEPT ![c] = Append(@, Head(downq[c]).data)]
  /\ downq' = [downq EXCEPT ![c] = Tail(@)]
  /\ UNCHANGED <<client, socks, upq, slog, emitted, SocketOthers>>

----------------------------------------------------------------------------
(* Error-Handling/centralized.handling.md: the /products example *)

ProdOthers == <<dispVars, sessVars, jwtVars, crudVars, cacheVars, clusterVars, socketVars, saveVars>>

NotStarted == "not started"

\* the values of NODE_ENV the process is started with; Undefined: not set
NodeEnvs == {"development", "production", "test", Undefined}

\* err.stack: the name of the error, its message and the frames
StackOf(message) == <<"Error: ", message, "\n    at ">>

\* null, where a stack may stand; a stack is never empty
Null == <<>>

\* new AppError(message, status); status 0 stands for no status given, which
\* is what new Error(message) has
AppError(message, status) ==
  [message |-> message, status |-> status, stack |-> StackOf(message)]

NoPErr == [message |-> Undefined, status |-> 0, stack |-> Null]

\* the errors a handler may pass to next: with and without a status, with and
\* without a message
Errors ==
  {AppError(m, st) : m \in {"", "No products found", "Bad request"},
                     st \in {0, 400, 404, 503}}

\* const products = []
Products == <<>>

ProdPaths == {"/products", "/fails", "/nope"}

\* a response: a JSON body { success, message, details }, or Express's own page
PJson(status, message, details) ==
  [kind |-> "json", status |-> status, success |-> FALSE,
   message |-> message, details |-> details]

NoPRes == [kind |-> "none", status |-> 0, success |-> FALSE,
           message |-> Undefined, details |-> Null]

NoPAns == [path |-> Undefined, err |-> NoPErr, env |-> NotStarted, res |-> NoPRes]

\* err.status || 500
StatusOr500(e) == IF e.status = 0 THEN 500 ELSE e.status

\* err.message || 'Internal Server Error'
MessageOrDefault(e) == IF Falsy(e.message) THEN "Internal Server Error" ELSE e.message

\* a slip: the stack is sent whatever the environment
DetailsAlways(env, e) == e.stack

\* process.env.NODE_ENV === 'development' ? err.stack : null
DetailsFor(env, e) == IF env = "development" THEN e.stack ELSE Null

\* the process starts with some NODE_ENV
ProdStart(env) ==
  /\ nodeEnv = NotStarted
  /\ nodeEnv' = env
  /\ UNCHANGED <<ppath, perr, pans, plog, ProdOthers>>

\* a request arrives; the server takes one at a time
ProdArrive(path) ==
  /\ nodeEnv # NotStarted
  /\ ppath = Undefined
  /\ ppath' = path
  /\ UNCHANGED <<nodeEnv, perr, pans, plog, ProdOthers>>

\* app.get('/products'): with no products the AppError goes to next
GetProducts ==
  /\ ppath = "/products"
  /\ perr = NoPErr
  /\ IF Len(Products) = 0
     THEN /\ perr' = AppError("No products found", 404)
          /\ UNCHANGED <<ppath, pans>>
     ELSE /\ pans' = [path |-> ppath, err |-> NoPErr, env |-> nodeEnv,
                      res |-> [NoPRes EXCEPT !.kind = "list", !.status = 200]]
          /\ ppath' = Undefined
          /\ perr' = perr
  /\ UNCHANGED <<nodeEnv, plog, ProdOthers>>

\* next(err) of any handler registered before the error-handling middleware,
\* with any error
NextWith(e) ==
  /\ ppath = "/fails"
  /\ perr = NoPErr
  /\ perr' = e
  /\ UNCHANGED <<nodeEnv, ppath, pans, plog, ProdOthers>>

\* app.use((err, req, res, next) => ...): the centralized error-handling
\* middleware logs the stack and answers
CentralErrorHandler ==
  /\ perr # NoPErr
  /\ plog' = perr.stack
  /\ pans' = [path |-> ppath, err |-> perr, env |-> nodeEnv,
              res |-> PJson(StatusOr500(perr), MessageOrDefault(perr),
                            DetailsFor(nodeEnv, perr))]
  /\ perr' = NoPErr
  /\ ppath' = Undefined
  /\ UNCHANGED <<nodeEnv, ProdOthers>>

\* no route matches: Express's final handler answers 404
ProdNotFound ==
  /\ ppath = "/nope"
  /\ pans' = [path |-> ppath, err |-> NoPErr, env |-> nodeEnv,
              res |-> [NoPRes EXCEPT !.kind = "html", !.status = 404]]
  /\ ppath' = Undefined
  /\ UNCHANGED <<nodeEnv, perr, plog, ProdOthers>>

----------------------------------------------------------------------------
(* part_000: the 'Save a user to the database' example *)

SaveOthers ==
  <<dispVars, sessVars, jwtVars, crudVars, cacheVars, clusterVars, socketVars, prodVars>>

\* how many requests the server gets in a run
MaxReqs == 3

SaveRequests == 1..MaxReqs

NoSaveReq == [state |-> "none", method |-> Undefined, path |-> Undefined]

SavePaths == {"/user", "/other"}

\* a request arrives; the handlers are asynchronous, so requests overlap
SaveArrive(r, m, p) ==
  /\ sproc = "up"
  /\ sreq[r].state = "none"
  /\ \A q \in SaveRequests : q < r => sreq[q].state # "none"
  /\ sreq' = [sreq EXCEPT ![r] = [state |-> "arrived", method |-> m, path |-> p]]
  /\ UNCHANGED <<sans, sdocs, sproc, SaveOthers>>

\* app.post('/user', async (req, res) => ...) up to the await: new User(...),
\* user.save() called, the handler returns its promise to Express
SaveUser(r) ==
  /\ sproc = "up"
  /\ sreq[r].state = "arrived"
  /\ sreq[r].method = "POST" /\ sreq[r].path = "/user"
  /\ sreq' = [sreq EXCEPT ![r].state = "saving"]
  /\ UNCHANGED <<sans, sdocs, sproc, SaveOthers>>

\* user.save() fulfils: the handler goes on to res.send('User saved')
SaveFulfils(r) ==
  /\ sproc = "up"
  /\ sreq[r].state = "saving"
  /\ sdocs' = sdocs + 1
  /\ sans' = [sans EXCEPT ![r] = Append(@, SendText(200, <<"User saved">>))]
  /\ sreq' = [sreq EXCEPT ![r].state = "answered"]
  /\ UNCHANGED <<sproc, SaveOthers>>

\* user.save() rejects: the await throws inside the async handler, nothing
\* catches it and Express 4 does not look at the promise the handler returned.
\* The rejection is unhandled: Node prints a warning and goes on, the request
\* left without an answer, or (the default since Node 15) ends the process,
\* and every request not yet answered loses its connection.
SaveRejects(r) ==
  /\ sproc = "up"
  /\ sreq[r].state = "saving"
  /\ \E ends \in BOOLEAN :
       IF ends
       THEN /\ sproc' = "crashed"
            /\ sreq' = [q \in SaveRequests |->
                          IF sreq[q].state \in {"arrived", "saving", "hung"}
                          THEN [sreq[q] EXCEPT !.state = "dropped"]
                          ELSE sreq[q]]
       ELSE /\ sreq' = [sreq EXCEPT ![r].state = "hung"]
            /\ sproc' = sproc
  /\ UNCHANGED <<sans, sdocs, SaveOthers>>

\* no route matches: Express's final handler answers 404
SaveNotFound(r) ==
  /\ sproc = "up"
  /\ sreq[r].state = "arrived"
  /\ ~(sreq[r].method = "POST" /\ sreq[r].path = "/user")
  /\ sans' = [sans EXCEPT ![r] =
                Append(@, SendText(404, <<"Cannot ", sreq[r].method, " ", sreq[r].path>>))]
  /\ sreq' = [sreq EXCEPT ![r].state = "answered"]
  /\ UNCHANGED <<sdocs, sproc, SaveOthers>>

----------------------------------------------------------------------------
(* Specifications *)

Init ==
  /\ req = [a \in Apps |-> IdleReq]
  /\ cur = [a \in Apps |-> 0]
  /\ err = [a \in Apps |-> NoErr]
  /\ res = [a \in Apps |-> NoRes]
  /\ trace = [a \in Apps |-> <<>>]
  /\ pend = [a \in Apps |-> NoPend]
  /\ store = [a \in SessApps |-> [s \in 1..MaxSid |-> NoSess]]
  /\ jar = [a \in SessApps |-> [c \in Clients |-> 0]]
  /\ nextSid = [a \in SessApps |-> 1]
  /\ last = [a \in SessApps |-> [c \in Clients |-> NoLast]]
  /\ users = <<>>
  /\ issued = {}
  /\ now = 0
  /\ jwtLast = NoJwtLast
  /\ db = <<>>
  /\ nextId = 1
  /\ created = {}
  /\ deleted = {}
  /\ ulast = NoULast
  /\ redis = NoEntry
  /\ clock = 0
  /\ waiting = {}
  /\ setex = 0
  /\ up = TRUE
  /\ dlast = NoDLast
  /\ worker = [w \in Workers |-> "none"]
  /\ conns = [w \in Workers |-> 0]
  /\ exits = {}
  /\ clog = <<>>
  /\ hello = [by |-> 0, text |-> <<>>, dead |-> {}]
  /\ client = [c \in SocketIds |-> "none"]
  /\ socks = [c \in SocketIds |-> "none"]
  /\ upq = [c \in SocketIds |-> <<>>]
  /\ downq = [c \in SocketIds |-> <<>>]
  /\ inbox = [c \in SocketIds |-> <<>>]
  /\ slog = <<>>
  /\ emitted = 0
  /\ nodeEnv = NotStarted
  /\ ppath = Undefined
  /\ perr = NoPErr
  /\ pans = NoPAns
  /\ plog = <<>>
  /\ sreq = [r \in SaveRequests |-> NoSaveReq]
  /\ sans = [r \in SaveRequests |-> <<>>]
  /\ sdocs = 0
  /\ sproc = "up"

WorkoutsNext ==
  \/ WorkoutsArrive
  \/ VerifyToken
  \/ ProfileHandler
  \/ PrintDate
  \/ Home
  \/ Contact
  \/ About
  \/ Blog
  \/ CatchAll
  \/ FinalHandler("workouts")
  \/ Complete("workouts")

SpecWorkouts == Init /\ [][WorkoutsNext]_vars

\* what an application of the error-handling text does once a request is in
ErrStep(a) ==
  \/ a = "errbasic" /\ RootThrows
  \/ ErrorMiddleware(a)
  \/ AsyncStart(a, "asyncError")
  \/ AsyncStart(a, "asyncAwait")
  \/ AsyncSettle(a)
  \/ FinalHandler(a)
  \/ Complete(a)

ErrNext == \E a \in ErrApps : ErrArrive(a) \/ ErrStep(a)

\* Node runs every callback that is ready and every promise here settles
SpecErr == Init /\ [][ErrNext]_vars /\ \A a \in ErrApps : WF_vars(ErrStep(a))

AuthSessNext ==
  \E c \in Clients : Login("authsess", c) \/ Logout("authsess", c) \/ Dashboard("authsess", c)

SpecAuthSess == Init /\ [][AuthSessNext]_vars

SessDemoNext ==
  \E c \in Clients : DemoLogin(c) \/ DemoProfile(c) \/ DemoLogout(c) \/ DemoRoot(c)

SpecSessDemo == Init /\ [][SessDemoNext]_vars

RegenNext ==
  \E c \in Clients : Login("regen", c) \/ Logout("regen", c) \/ Dashboard("regen", c)

SpecRegen == Init /\ [][RegenNext]_vars

RolesNext ==
  \/ RolesArrive
  \/ RoleAuthorization("adminAuth", <<"admin">>)
  \/ RoleAuthorization("editAuth", <<"admin", "editor">>)
  \/ Admin
  \/ Edit
  \/ View
  \/ FinalHandler("roles")
  \/ Complete("roles")

SpecRoles == Init /\ [][RolesNext]_vars

\* what a custom-middleware example does once a request is in
MwStep(a) ==
  \/ a = "mwlog" /\ LogRequestDetails
  \/ a = "mwtoken" /\ CheckToken
  \/ a = "mwheader" /\ LogAndAddHeader
  \/ a = "mwstamp" /\ AddTimestamp
  \/ MwHome(a)
  \/ a = "mwheader" /\ MwAbout
  \/ FinalHandler(a)
  \/ Complete(a)

MwNext == \E a \in MwApps : MwArrive(a) \/ MwStep(a)

\* Node runs every handler whose turn it is
SpecMw == Init /\ [][MwNext]_vars /\ \A a \in MwApps : WF_vars(MwStep(a))

\* what an example with several handlers does once a request is in
ChainStep(a) ==
  \/ a = "multi" /\ CheckAuth
  \/ a = "multi" /\ LogDetails
  \/ a = "multi" /\ ProfilePage
  \* part_009, 6.1: the two app.use middleware and app.get('/')
  \/ a = "order" /\ LogAndNext("order", "first")
  \/ a = "order" /\ LogAndNext("order", "second")
  \/ a = "order" /\ SendPage("order", "hello", "Hello, World!")
  \* part_009, 6.3: validateToken, logRequest and the /dashboard handler
  \/ a = "dash" /\ PassOrRefuse("dash", "validateToken", ~Falsy(req["dash"].query),
                                401, "Unauthorized")
  \/ a = "dash" /\ LogAndNext("dash", "logRequest")
  \/ a = "dash" /\ SendPage("dash", "dashboard", "Welcome to the dashboard!")
  \* Routing/advanced.md: logRequest, validateUser and the /dashboard handler
  \/ a = "chain" /\ LogAndNext("chain", "logRequest")
  \/ a = "chain" /\ PassOrRefuse("chain", "validateUser", req["chain"].query = "admin",
                                 403, "Access Denied")
  \/ a = "chain" /\ SendPage("chain", "dashboard", "Welcome to the Admin Dashboard")
  \/ FinalHandler(a)
  \/ Complete(a)

ChainNext == \E a \in ChainApps : ChainArrive(a) \/ ChainStep(a)

\* Node runs every handler whose turn it is
SpecChain == Init /\ [][ChainNext]_vars /\ \A a \in ChainApps : WF_vars(ChainStep(a))

UnitNext ==
  \/ UnitArrive
  \/ AuthMiddleware
  \/ FinalHandler("unitauth")
  \/ Complete("unitauth")

SpecUnit == Init /\ [][UnitNext]_vars

JwtNext ==
  \/ \E u \in JwtUsernames, p \in JwtPasswords : JwtRegister(u, p)
  \/ \E u \in JwtUsernames, p \in JwtPasswords : JwtLogin(u, p)
  \/ \E h \in JwtHeaders(issued) : Protected(h)
  \/ HourPasses

SpecJwt == Init /\ [][JwtNext]_vars

CrudNext ==
  \/ \E body \in UserBodies, down \in BOOLEAN : CreateUser(body, down)
  \/ \E down \in BOOLEAN : ReadUsers(down)
  \/ \E id \in RequestIds, down \in BOOLEAN : ReadUser(id, down)
  \/ \E id \in RequestIds, body \in UserBodies, down \in BOOLEAN : UpdateUser(id, body, down)
  \/ \E id \in RequestIds, down \in BOOLEAN : DeleteUser(id, down)

SpecCrud == Init /\ [][CrudNext]_vars

SortNext ==
  \/ \E body \in UserBodies, down \in BOOLEAN : CreateUser(body, down)
  \/ \E id \in RequestIds, body \in UserBodies, down \in BOOLEAN : UpdateUser(id, body, down)
  \/ \E id \in RequestIds, down \in BOOLEAN : DeleteUser(id, down)
  \/ \E q \in SortQueries, down \in BOOLEAN : SortUsers(q, down)

SpecSort == Init /\ [][SortNext]_vars

PageNext ==
  \/ \E body \in UserBodies, down \in BOOLEAN : CreateUser(body, down)
  \/ \E id \in RequestIds, down \in BOOLEAN : DeleteUser(id, down)
  \/ \E pq \in PageQueries, lq \in LimitQueries, down \in BOOLEAN : PageUsers(pq, lq, down)

SpecPage == Init /\ [][PageNext]_vars

CacheNext ==
  \/ \E c \in Clients : GetData(c)
  \/ \E c \in Clients, failed \in BOOLEAN : GetReply(c, failed)
  \/ SetexArrives
  \/ TickPasses
  \/ Restart

SpecCache == Init /\ [][CacheNext]_vars

\* what the processes of the cluster do by themselves
ClusterStep ==
  \/ \E w \in Workers : Fork(w)
  \/ \E w \in Workers : Listen(w)
  \/ \E w \in Workers : Hello(w)
  \/ \E w \in Workers : OnExit(w)

ClusterNext ==
  \/ ClusterStep
  \/ \E w \in Workers : Connect(w)
  \/ \E w \in Workers : WorkerExit(w)

\* every process that runs takes its steps
SpecCluster ==
  /\ Init /\ [][ClusterNext]_vars
  /\ \A w \in Workers : WF_vars(Hello(w)) /\ WF_vars(OnExit(w))

SocketNext ==
  \/ \E c \in SocketIds : Io(c)
  \/ \E c \in SocketIds : ClientEmit(c)
  \/ \E c \in SocketIds : ClientDisconnect(c)
  \/ \E c \in SocketIds : Connection(c)
  \/ \E c \in SocketIds : OnMessage(c)
  \/ \E c \in SocketIds : OnDisconnect(c)
  \/ \E c \in SocketIds : ClientOnMessage(c)

SpecSocket == Init /\ [][SocketNext]_vars

ProdNext ==
  \/ \E env \in NodeEnvs : ProdStart(env)
  \/ \E path \in ProdPaths : ProdArrive(path)
  \/ GetProducts
  \/ \E e \in Errors : NextWith(e)
  \/ CentralErrorHandler
  \/ ProdNotFound

SpecProd == Init /\ [][ProdNext]_vars

\* what the server does by itself once a request is in
SaveStep(r) ==
  \/ SaveUser(r)
  \/ SaveFulfils(r)
  \/ SaveRejects(r)
  \/ SaveNotFound(r)

SaveNext ==
  \E r \in SaveRequests :
    \/ \E m \in Methods, p \in SavePaths : SaveArrive(r, m, p)
    \/ SaveStep(r)

\* Node runs every handler that is ready, and every save settles
SpecSave ==
  /\ Init /\ [][SaveNext]_vars
  /\ \A r \in SaveRequests : WF_vars(SaveStep(r))

----------------------------------------------------------------------------
(* Claims about the Workouts application *)

W == "workouts"

\* the paths for which index.js or the profile router defines a route
WorkoutsDefinedPaths == {"/", "/contact", "/about", "/blog", "/profile"}

\* a token signed with SECRET_KEY that has not expired
GoodToken(t) == t \in Tokens /\ TokenKey(t) = SECRET_KEY /\ ~TokenExpired(t)

\* the header's second space-separated field is a good token
SecondFieldGood(h) ==
  /\ Len(Split(h)) >= 2
  /\ \E t \in Tokens : GoodToken(t) /\ Split(h)[2] = <<t>>

\* C1: for every request, whatever its path, printDate has run (and logged)
\* by the time the response to the request is sent.
C1_PrintDateBeforeEveryResponse ==
  res[W] # NoRes => InTrace(W, "printDate")

\* C2: the GET /profile handler runs, and the 'Profile data' response is sent,
\* only for a request whose token verifyToken verified and whose payload it
\* attached as req.user; the response's user field is that payload.
C2_ProfileOnlyForVerifiedToken ==
  /\ InTrace(W, "profileHandler") =>
       /\ InTrace(W, "verifyToken.next")
       /\ req[W].hasAuth /\ SecondFieldGood(req[W].auth)
       /\ req[W].user = TokenPayload(Split(req[W].auth)[2][1])
       /\ res[W] = SendJson(200, "Profile data", req[W].user)
  /\ res[W].message = "Profile data" => InTrace(W, "profileHandler")

C2_Witness ==
  /\ res[W] = SendJson(200, "Profile data", "alice")
  /\ req[W].auth = <<"Bearer", Space, "t_alice">>

\* C3: verifyToken on a request with no Authorization header, or an empty
\* one, answers 403 {message: 'Access denied, token missing'}, does not call
\* next() and does not set req.user.
C3_MissingTokenIs403 ==
  (InTrace(W, "verifyToken") /\ (~req[W].hasAuth \/ req[W].auth = <<>>)) =>
    /\ res[W] = SendJson(403, "Access denied, token missing", Undefined)
    /\ ~InTrace(W, "verifyToken.next")
    /\ req[W].user = Undefined

C3_Witness ==
  /\ InTrace(W, "verifyToken")
  /\ req[W].hasAuth /\ req[W].auth = <<>>
  /\ res[W].status = 403

\* C4: verifyToken on a request whose Authorization header is present and
\* not empty but whose second space-separated field is no good token answers
\* 401 {message: 'Invalid token'}, never calls next() and leaves req.user unset.
C4_InvalidTokenIs401 ==
  (/\ InTrace(W, "verifyToken")
   /\ req[W].hasAuth /\ req[W].auth # <<>>
   /\ ~SecondFieldGood(req[W].auth)) =>
    /\ res[W] = SendJson(401, "Invalid token", Undefined)
    /\ ~InTrace(W, "verifyToken.next")
    /\ req[W].user = Undefined

\* the raw token alone, a good one, is still refused
C4_Witness ==
  /\ InTrace(W, "verifyToken")
  /\ req[W].auth = <<"t_alice">>
  /\ res[W] = SendJson(401, "Invalid token", Undefined)

\* C5: a request for an undefined path, whatever its method, is answered 404
\* with the body '<h1>404</h1>'.
C5_UndefinedPathGetsCatchAll ==
  (res[W] # NoRes /\ req[W].path \notin WorkoutsDefinedPaths) =>
    res[W] = SendText(404, <<"<h1>404</h1>">>)

----------------------------------------------------------------------------
(* Claims about the error-handling examples *)

\* the number of responses sent for the request application a is serving
RECURSIVE CountEnds(_)
CountEnds(t) == IF t = <<>> THEN 0
                ELSE (IF Head(t) = "res.end" THEN 1 ELSE 0) + CountEnds(Tail(t))

\* C6: in the basic example an error thrown in a route is caught by the
\* error-handling middleware, which logs err.stack and answers 500
\* 'Something went wrong!'.
C6_ThrownErrorReachesMiddleware ==
  (InTrace("errbasic", "throw") /\ res["errbasic"] # NoRes) =>
    /\ InTrace("errbasic", "console.error(err.stack)")
    /\ res["errbasic"] = SendText(500, <<"Something went wrong!">>)

\* someAsyncOperation() failed for the request: it threw or its promise rejected
AsyncFailed == InTrace("errasync", "throw") \/ InTrace("errasync", "rejected")

\* C7: in /async-error and /async-await, whenever someAsyncOperation() fails
\* the error goes to next(error) (Express's own catch for what the promise
\* route lets escape), res.send(result) is not executed, at most one response
\* is sent and it has status 500, and a response is sent eventually.
C7_AsyncErrorSafety ==
  AsyncFailed =>
    /\ InTrace("errasync", "next(error)") \/ InTrace("errasync", "throw")
    /\ err["errasync"] # NoErr
    /\ ~InTrace("errasync", "res.send(result)")
    /\ CountEnds(trace["errasync"]) <= 1
    /\ (res["errasync"] # NoRes => res["errasync"].status = 500)
    /\ (res["errasync"] # NoRes <=> CountEnds(trace["errasync"]) = 1)

----------------------------------------------------------------------------
(* Claims about the session examples *)

\* C8: for every client and sequence of logins, logouts and dashboard
\* requests, GET /dashboard answers 'Welcome to your dashboard!' exactly when
\* a login of that client succeeded and no logout of it has succeeded since,
\* and 403 'Unauthorized access' otherwise.
C8_DashboardIffLoggedIn ==
  \A c \in Clients :
    LET l == last["authsess"][c]
    IN l.op = "dashboard" =>
         IF l.authed
         THEN l.status = 200 /\ l.text = <<"Welcome to your dashboard!">>
         ELSE l.status = 403 /\ l.text = <<"Unauthorized access">>

\* a dashboard still granted after a logout that failed
C8_Witness ==
  \E c \in Clients :
    LET l == last["authsess"][c]
    IN l.op = "dashboard" /\ l.status = 200 /\ l.sinceLogout = "err"

\* what every logout of the demo is claimed to leave behind
DemoLoggedOut(c) ==
  LET l == last["sessdemo"][c]
  IN /\ ~store["sessdemo"][l.loaded].live
     /\ jar["sessdemo"][c] = 0
     /\ l.status = 302 /\ l.text = <<"/">>

ClientCarries(a, c) ==
  /\ jar[a][c] # 0
  /\ store[a][jar[a][c]].live
  /\ store[a][jar[a][c]].userId # 0

\* C10 as stated, the last part: after a login whose regeneration failed the
\* answer is 500 'Could not regenerate session' and no session carries
\* userId, neither the one the client presented nor the one it holds now.
C10_FailedRegenerationLeavesNoUser ==
  \A c \in Clients :
    LET l == last["regen"][c]
    IN (l.op = "login" /\ l.status = 500) =>
         /\ l.text = <<"Could not regenerate session">>
         /\ ~ClientCarries("regen", c)
         /\ ~(store["regen"][l.loaded].live /\ store["regen"][l.loaded].userId # 0)

\* after a successful login the session with the userId has a new ID, and the
\* session the request came with is gone
C10_LoginRegenerates ==
  \A c \in Clients :
    LET l == last["regen"][c]
        sid == jar["regen"][c]
    IN (l.op = "login" /\ l.status = 200) =>
         /\ sid # 0 /\ sid # l.presented /\ sid # l.loaded
         /\ store["regen"][sid].live /\ store["regen"][sid].userId = 1
         /\ ~store["regen"][l.loaded].live
         /\ l.presented # 0 => ~store["regen"][l.presented].live

\* no request stores a userId in a session that exists already, and a login
\* answered 500 says 'Could not regenerate session' and leaves the sessions
\* that carry a userId exactly as they were
C10_LoginStep ==
  /\ \A s \in 1..MaxSid :
       store["regen"][s].live =>
         (store["regen"][s].userId = 0 => store'["regen"][s].userId = 0)
  /\ \A c \in Clients :
       (/\ last'["regen"][c] # last["regen"][c]
        /\ last'["regen"][c].op = "login"
        /\ last'["regen"][c].status = 500) =>
         /\ last'["regen"][c].text = <<"Could not regenerate session">>
         /\ Carriers("regen")' = Carriers("regen")
         /\ ~ClientCarries("regen", c)'

\* C10 amended: after a successful login the session that carries userId has
\* an ID different from the one the client presented, userId is never stored
\* in the pre-login session, and if regeneration fails the answer is 500
\* 'Could not regenerate session' and no session gains a userId (a session
\* that carried one from an earlier login still does).
C10_RegenerateOnLogin == []C10_LoginRegenerates /\ [][C10_LoginStep]_vars

\* a client that was logged in logs in again and gets a new session ID
C10_Witness ==
  \E c \in Clients :
    LET l == last["regen"][c]
    IN /\ l.op = "login" /\ l.status = 200
       /\ l.presented # 0 /\ l.presented = l.loaded
       /\ jar["regen"][c] # l.presented

----------------------------------------------------------------------------
(* Claims about the JWT example *)

\* the pair is one that register stored: some user has the name and a hash of
\* the password
Registered(u, p) ==
  \E i \in 1..Len(users) :
    /\ users[i].username = u
    /\ users[i].password = BcryptHash(p, users[i].password.salt)

\* the header is a token the server's key signed and that has not expired at hour t
ValidToken(h, t) == h.kind = "jwt" /\ h.key = secretKey /\ t < h.exp

C11_Answers ==
  /\ jwtLast.op = "protected" /\ jwtLast.status = 200
       => /\ ValidToken(jwtLast.header, jwtLast.at)
          /\ jwtLast.header \in issued
          /\ jwtLast.text = <<"Hello, ", jwtLast.header.username,
                              "! This is a protected route.">>
  /\ jwtLast.op = "protected" /\ ~ValidToken(jwtLast.header, jwtLast.at)
       => jwtLast.status = 403
  /\ jwtLast.op = "login" /\ ~Registered(jwtLast.username, jwtLast.password)
       => /\ jwtLast.token = NoToken
          /\ jwtLast.password # Undefined => jwtLast.status = 401
  /\ \A t \in issued : \E i \in 1..Len(users) : users[i].username = t.username

\* a step that signs a token is a login with a registered name and its password
C11_IssueStep ==
  issued' # issued
    => /\ jwtLast'.op = "login"
       /\ Registered(jwtLast'.username, jwtLast'.password)
       /\ issued' = issued \cup {jwtLast'.token}
       /\ jwtLast'.token = JwtSign(jwtLast'.username, secretKey, now)

----------------------------------------------------------------------------
(* Claims about role-based authorization *)

RolesReq == req["roles"]
RolesRan(name) == InTrace("roles", name)

\* what roleAuthorization(roles), run as handler `name`, did with the request
C12_Middleware(name, roles) ==
  LET allowed == /\ RolesReq.user # Undefined
                 /\ RoleOf(RolesReq.user) \in {roles[i] : i \in 1..Len(roles)}
  IN RolesRan(name) =>
       /\ RolesRan(name \o ".next") <=> allowed
       /\ ~allowed =>
            /\ res["roles"].status = 403
            /\ trace["roles"] = <<name, "res.end">>

\* C12: the middleware roleAuthorization(roles) returns calls next() exactly
\* when req.user exists and req.user.role is one of roles and otherwise answers
\* 403 without calling next(); the /admin handler runs only for role admin and
\* the /edit handler only for the roles admin and editor.
C12_OnlyAllowedRolesPass ==
  /\ C12_Middleware("adminAuth", <<"admin">>)
  /\ C12_Middleware("editAuth", <<"admin", "editor">>)
  /\ RolesRan("admin") => RolesReq.user # Undefined /\ RoleOf(RolesReq.user) = "admin"
  /\ RolesRan("edit") =>
       RolesReq.user # Undefined /\ RoleOf(RolesReq.user) \in {"admin", "editor"}

\* an editor's POST /edit was let through and answered by the handler
C12_Witness ==
  /\ RolesRan("editAuth.next") /\ RolesRan("edit")
  /\ RoleOf(RolesReq.user) = "editor"
  /\ res["roles"].status = 200

----------------------------------------------------------------------------
(* Claims about the custom-middleware examples *)

\* the middleware of example a ran and returned without calling next()
MwRanWithoutNext(a) ==
  /\ InTrace(a, Middleware(a))
  /\ ~InTrace(a, Middleware(a) \o ".next")

\* C13 as stated: a middleware that does not call next() leaves the client
\* without a response, in every custom-middleware example, checkToken on a
\* request without a token included.
C13_NoNextNoResponse ==
  \A a \in MwApps : MwRanWithoutNext(a) => res[a] = NoRes

C13_MiddlewareSafety ==
  /\ \A a \in MwApps \ {"mwtoken"} : ~MwRanWithoutNext(a)
  /\ InTrace("mwtoken", "checkToken") =>
       (InTrace("mwtoken", "checkToken.next") <=> req["mwtoken"].query \notin {Undefined, ""})
  /\ MwRanWithoutNext("mwtoken") =>
       /\ res["mwtoken"] = SendText(401, <<"Unauthorized: Token is missing">>)
       /\ trace["mwtoken"] = <<"checkToken", "res.end">>

\* C13, amended: every middleware of the custom-middleware examples calls
\* next() or sends the response itself, so that every request is answered;
\* checkToken calls next() exactly when req.query.token is truthy, and on a
\* request without a token it does not call next() but sends 401
\* 'Unauthorized: Token is missing', after which no other handler runs.
C13_NextOrResponse ==
  /\ []C13_MiddlewareSafety
  /\ \A a \in MwApps : (cur[a] > 0) ~> (res[a] # NoRes)

\* checkToken answered a request that carries an empty token parameter
C13_Witness ==
  /\ MwRanWithoutNext("mwtoken")
  /\ req["mwtoken"].query = ""
  /\ res["mwtoken"].status = 401

----------------------------------------------------------------------------
(* Claims about several handlers in a row *)

IsPrefix(s, t) == Len(s) <= Len(t) /\ \A i \in 1..Len(s) : s[i] = t[i]

\* what runs, in order, when every handler of the route lets the request pass
FullRun(a) ==
  CASE a = "multi" -> <<"checkAuth", "checkAuth.next",
                        "logDetails", "console.log", "logDetails.next",
                        "profilePage", "res.end">>
    [] a = "order" -> <<"first", "console.log", "first.next",
                        "second", "console.log", "second.next", "hello", "res.end">>
    [] a = "dash" ->  <<"validateToken", "validateToken.next",
                        "logRequest", "console.log", "logRequest.next",
                        "dashboard", "res.end">>
    [] a = "chain" -> <<"logRequest", "console.log", "logRequest.next",
                        "validateUser", "validateUser.next", "dashboard", "res.end">>

\* the other runs: a handler refuses, or no route takes the request
OtherRuns(a) ==
  CASE a = "multi" -> {<<"checkAuth", "res.end">>, <<"finalhandler", "res.end">>}
    [] a = "order" -> {<<"first", "console.log", "first.next",
                         "second", "console.log", "second.next",
                         "finalhandler", "res.end">>}
    [] a = "dash" ->  {<<"validateToken", "res.end">>, <<"finalhandler", "res.end">>}
    [] a = "chain" -> {<<"logRequest", "console.log", "logRequest.next",
                         "validateUser", "res.end">>, <<"finalhandler", "res.end">>}

C14_InOrder ==
  /\ \A a \in ChainApps : \E r \in {FullRun(a)} \cup OtherRuns(a) : IsPrefix(trace[a], r)
  /\ InTrace("multi", "checkAuth") =>
       /\ req["multi"].method = "GET" /\ req["multi"].path = "/profile"
       /\ InTrace("multi", "checkAuth.next") <=> req["multi"].query = "true"
       /\ req["multi"].query # "true" =>
            /\ trace["multi"] = <<"checkAuth", "res.end">>
            /\ res["multi"] = SendText(401, <<"Unauthorized">>)
  /\ InTrace("multi", "profilePage") =>
       /\ trace["multi"] = FullRun("multi")
       /\ res["multi"] = SendText(200, <<"User Profile Page">>)

MultiProfile(q) ==
  /\ cur["multi"] > 0
  /\ req["multi"].method = "GET" /\ req["multi"].path = "/profile"
  /\ req["multi"].query = q

\* C14: the handlers of GET /profile run in the order they are listed, each
\* only after the one before it called next(): logDetails logs only after
\* checkAuth passed the request on, the final handler answers only after both
\* ran, and it does answer; when checkAuth fails it sends 401 and neither
\* logDetails nor the final handler runs.  The same order holds in the other
\* examples of handlers in a row.
C14_HandlersRunInOrder ==
  /\ []C14_InOrder
  /\ MultiProfile("true") ~> (trace["multi"] = FullRun("multi"))
  /\ \A q \in ChainQueries("multi") \ {"true"} :
       MultiProfile(q) ~> (trace["multi"] = <<"checkAuth", "res.end">>)

\* GET /profile?auth=true was answered by the final handler
C14_Witness ==
  /\ InTrace("multi", "profilePage")
  /\ InTrace("multi", "logDetails")
  /\ res["multi"].status = 200

----------------------------------------------------------------------------
(* Claims about the users API *)

DbIds == {db[i].id : i \in 1..Len(db)}
OnId == ulast.op \in {"readOne", "update", "delete"}

\* GET /users lists the created and not deleted users; a deleted id is gone
\* for good; a request on an id that never existed changes nothing
C15_Collection ==
  /\ DbIds = created \ deleted
  /\ ulast.op = "readAll" /\ ulast.status = 200 => ulast.docs = db
  /\ OnId /\ ulast.id \notin created => ~ulast.changed

Served ==
  /\ ~ulast.down
  /\ ulast.id # MalformedId
  /\ ulast.status # 400

Ascending(d) == \A i \in 1..Len(d) - 1 : d[i].age <= d[i + 1].age
Descending(d) == \A i \in 1..Len(d) - 1 : d[i].age >= d[i + 1].age

\* C16: GET /users?sort=age answers with the users in ascending order of age
\* and GET /users?sort=-age with the users in descending order of age.
C16_SortByQuery ==
  ulast.op = "sorted" /\ ulast.status = 200 =>
    /\ {ulast.docs[i] : i \in 1..Len(ulast.docs)} = {db[i] : i \in 1..Len(db)}
    /\ Len(ulast.docs) = Len(db)
    /\ ulast.sort = "age" => Ascending(ulast.docs)
    /\ ulast.sort = "-age" => Descending(ulast.docs)

\* the texts that start with a decimal number, and that number
Numerals == {"0", "1", "2", "2abc", "3", "-1"}
NumberOf(t) ==
  CASE t = "0" -> 0 [] t = "1" -> 1 [] t \in {"2", "2abc"} -> 2 [] t = "3" -> 3
    [] t = "-1" -> -1

\* the users on page p when every page holds n users: those after the first
\* (p - 1) * n, at most n of them
PageOf(d, p, n) ==
  {d[i] : i \in {j \in 1..Len(d) : (p - 1) * n < j /\ j <= p * n}}

\* C17: page is 1 and limit is 10 when the parameter is missing or is not a
\* number; the handler skips (page - 1) * limit users and returns at most limit
\* of them, with currentPage = page, totalUsers = the number of users and
\* totalPages = ceil(totalUsers / limit); the pages 1..totalPages are pairwise
\* disjoint and together hold every user.
C17_Pagination ==
  ulast.op = "page" /\ ~ulast.down =>
    /\ ulast.status = 200
    /\ ulast.page \notin Numerals => ulast.currentPage = 1
    /\ ulast.limit \notin Numerals => ulast.perPage = 10
    /\ ulast.page \in Numerals \ {"0"} => ulast.currentPage = NumberOf(ulast.page)
    /\ ulast.limit \in Numerals \ {"0"} => ulast.perPage = NumberOf(ulast.limit)
    /\ {ulast.docs[i] : i \in 1..Len(ulast.docs)}
         = PageOf(db, ulast.currentPage, ulast.perPage)
    /\ Len(ulast.docs) <= ulast.perPage
    /\ ulast.totalUsers = Len(db)
    /\ ulast.totalPages * ulast.perPage >= Len(db)
    /\ (ulast.totalPages - 1) * ulast.perPage < Len(db) \/ Len(db) = 0
    /\ \A p, q \in 1..ulast.totalPages :
         p # q => PageOf(db, p, ulast.perPage) \cap PageOf(db, q, ulast.perPage) = {}
    /\ UNION {PageOf(db, p, ulast.perPage) : p \in 1..ulast.totalPages}
         = {db[i] : i \in 1..Len(db)}

----------------------------------------------------------------------------
(* Claims about the cache example *)

C18_Replies ==
  /\ dlast.kind = "miss" =>
       /\ dlast.body = [message |-> "This is the fetched data."]
       /\ dlast.fetched
  /\ dlast.kind = "hit" =>
       /\ dlast.body = [message |-> "This is the fetched data."]
       /\ ~dlast.fetched
       /\ dlast.age < 3600
  /\ redis # NoEntry =>
       /\ redis.key = "myData"
       /\ redis.expires = redis.stored + 3600
       /\ redis.value = <<"{", "message", ":", "This is the fetched data.", "}">>

\* a reply that is a miss puts one more SETEX on its way; nothing else does
C18_MissStores ==
  /\ dlast' # dlast /\ dlast'.kind = "miss" => setex' = setex + 1
  /\ setex' > setex => dlast'.kind = "miss" /\ RedisGet(redis, cacheKey, Now) = <<>>
  /\ dlast' # dlast /\ dlast'.kind = "hit" =>
       setex' = setex /\ redis' = redis /\ Now < redis.expires

\* C18: a cache miss stores the fetched data under 'myData' with a time-to-live
\* of 3600 seconds and returns it; a cache hit returns the cached copy without
\* fetching; the body is the same on a hit and on a miss; no entry is served
\* more than 3600 seconds after it was stored.
C18_CacheServesFetchedData == []C18_Replies /\ [][C18_MissStores]_vars

\* a hit served an entry that a miss stored before the clock moved
C18_Witness ==
  /\ dlast.kind = "hit"
  /\ dlast.age > 0
  /\ redis.stored < Now

----------------------------------------------------------------------------
(* Claims about the cluster example *)

Logged(w, what) == \E i \in 1..Len(clog) : clog[i] = <<"Worker ", w, what>>

C19_Cluster ==
  /\ \A w \in Workers : conns[w] > 0 => worker[w] = "listening"
  /\ hello.by # 0 =>
       /\ hello.by \notin hello.dead
       /\ hello.text = <<"Hello from Worker ", hello.by>>
  /\ \A w \in Workers : Logged(w, " died") <=> (worker[w] = "dead" /\ w \notin exits)

\* the step in which a worker ends changes no other worker
C19_ExitStep ==
  \A w \in Workers :
    worker[w] # "dead" /\ worker'[w] = "dead" =>
      \A v \in Workers \ {w} : worker'[v] = worker[v] /\ conns'[v] = conns[v]

\* C19: when a worker exits the others go on: the exit of one worker stops no
\* other worker, the master logs the exit, and a connection that comes in is
\* handed to a worker that is listening, which can answer it and does so unless
\* it exits itself, also after other workers exited.
C19_OthersContinue ==
  /\ []C19_Cluster
  /\ [][C19_ExitStep]_vars
  /\ \A w \in Workers : (w \in exits) ~> Logged(w, " died")
  /\ \A w \in Workers : (conns[w] = MaxConns) ~> (conns[w] < MaxConns)
  /\ \A w \in Workers : [](conns[w] > 0 /\ worker[w] = "listening" => ENABLED Hello(w))

\* a worker answered after another worker had exited and the master logged it
C19_Witness ==
  /\ hello.by # 0 /\ hello.dead # {}
  /\ \E w \in hello.dead : Logged(w, " died")
  /\ \E w \in Workers : worker[w] = "listening" /\ conns[w] > 0

----------------------------------------------------------------------------
(* Claims about the Socket.io example *)

\* the data of the packets of a queue, in order
DataOf(q) == [i \in 1..Len(q) |-> q[i].data]

IsMessageLine(l) == l.what = "Message received:"

\* the data of the messages the server has received, in the order it received
\* them
Received == DataOf(SelectSeq(slog, IsMessageLine))

\* the step is the server receiving a 'message' event
ReceiveStep ==
  /\ Len(slog') = Len(slog) + 1
  /\ IsMessageLine(slog'[Len(slog')])

\* t is a run of consecutive elements of s
IsSegment(t, s) ==
  \E i \in 1..(Len(s) + 1) :
    /\ i + Len(t) - 1 <= Len(s)
    /\ \A k \in 1..Len(t) : s[i + k - 1] = t[k]

\* the server receiving a message from a socket puts a 'message' packet with
\* the same data on the way to every socket connected at that moment, the
\* sender among them, and to no other; nothing else sends a packet to a client
C20_EmitStep ==
  /\ ReceiveStep =>
       LET line == slog'[Len(slog')]
       IN /\ socks[line.id] = "connected"
          /\ line.data = Head(upq[line.id]).data
          /\ downq'[line.id] = Append(downq[line.id], Packet("message", line.data))
          /\ \A r \in SocketIds :
               downq'[r] = IF socks[r] = "connected"
                           THEN Append(downq[r], Packet("message", line.data))
                           ELSE downq[r]
  /\ ~ReceiveStep =>
       \A r \in SocketIds : downq'[r] = downq[r] \/ downq'[r] = Tail(downq[r])

\* the listener of a client that has disconnected gets nothing more
C20_ClosedStep ==
  \A c \in SocketIds : client[c] = "closed" => inbox'[c] = inbox[c]

\* what a client got and what is on its way to it are, together, consecutive
\* messages of those the server received, in the order it received them
C20_InOrder ==
  \A c \in SocketIds : IsSegment(inbox[c] \o DataOf(downq[c]), Received)

\* C20: in the Socket.io example the server, on a 'message' event from a
\* connected socket, emits 'message' with the same data to all clients connected
\* at that moment, the sender included; a client that has disconnected receives
\* no later message, and every client gets the messages in the order the server
\* received them, those of one sender among them.
C20_EmitToAll ==
  /\ []C20_InOrder
  /\ [][C20_EmitStep]_vars
  /\ [][C20_ClosedStep]_vars

\* a sender got both of its messages back, in order, and another client that
\* disconnected after the first one got only that one
C20_Witness ==
  \E c, r \in SocketIds :
    /\ c # r
    /\ inbox[c] = <<Data(c, 1), Data(c, 2)>>
    /\ client[r] = "closed" /\ socks[r] = "gone"
    /\ inbox[r] = <<Data(c, 1)>>

----------------------------------------------------------------------------
(* Further claims about the sessions example application *)

\* the step is client c's GET /profile of the demo
DemoProfileStep(c) ==
  /\ last'["sessdemo"][c].op = "profile"
  /\ last'["sessdemo"][c].tick # last["sessdemo"][c].tick

\* the username a POST /login submitted is in the session client c presents:
\* a session never logged in to holds none, and a logout that destroyed the
\* session left nothing for the cookie to name
SubmittedUsername(c, u) ==
  /\ HasStored("sessdemo", c)
  /\ u # Undefined
  /\ store["sessdemo"][jar["sessdemo"][c]].username = u

\* C21: in the sessions example application the session stores the username
\* upon login and the profile retrieves it: for every username submitted to
\* POST /login, a following GET /profile in the same session answers
\* 'Welcome <username>', not 401, until a logout destroys the session.
C21_ProfileWelcomesUsername ==
  [][\A c \in Clients : \A u \in DemoUsernames :
       (SubmittedUsername(c, u) /\ DemoProfileStep(c)) =>
          /\ last'["sessdemo"][c].status = 200
          /\ last'["sessdemo"][c].text = <<"Welcome ", u>>]_vars

----------------------------------------------------------------------------
(* Claims about the /products example *)

\* the last answer was to an error
AnsweredError == pans.err # NoPErr

\* C22: the structured centralized error handler answers every error passed to
\* next(err) with status err.status when it is set and 500 otherwise, and a
\* JSON body with success false and message err.message, or the default
\* message when that is empty; /products with no products yields 404 'No
\* products found'; details is err.stack when NODE_ENV is 'development' and
\* null otherwise.
C22_StructuredErrorResponse ==
  /\ AnsweredError =>
       /\ pans.res.kind = "json"
       /\ pans.res.success = FALSE
       /\ pans.res.status = (IF pans.err.status # 0 THEN pans.err.status ELSE 500)
       /\ pans.res.message = (IF pans.err.message = "" THEN "Internal Server Error"
                              ELSE pans.err.message)
       /\ pans.env = "development" => pans.res.details = pans.err.stack
       /\ pans.env # "development" => pans.res.details = Null
       /\ plog = pans.err.stack
  /\ pans.path = "/products" =>
       /\ AnsweredError
       /\ pans.res.status = 404
       /\ pans.res.message = "No products found"
  /\ perr # NoPErr => ppath # Undefined

\* /products was answered in production: 404, no details, the stack logged
C22_Witness ==
  /\ pans.path = "/products" /\ pans.res.status = 404
  /\ pans.env = "production" /\ pans.res.details = Null
  /\ plog = StackOf("No products found")

----------------------------------------------------------------------------
(* Claims about the tested authMiddleware *)

\* how often ev is in the trace
Count(t, ev) == Cardinality({i \in 1..Len(t) : t[i] = ev})

\* authMiddleware has run for the request of the application
AuthMwRan == Count(trace["unitauth"], "authMiddleware") > 0

\* it set req.user, called next() once and sent nothing itself: what was sent
\* after its next() the final handler sent
AuthMwPassed ==
  LET t == trace["unitauth"]
  IN /\ req["unitauth"].user = SimulatedUser
     /\ Count(t, "authMiddleware.next") = 1
     /\ t[1] = "authMiddleware" /\ t[2] = "authMiddleware.next"
     /\ Count(t, "res.end") > 0 => t[3] = "finalhandler"

\* it answered 401 { message: 'Unauthorized' }, called no next() and set no user
AuthMwRefused ==
  /\ trace["unitauth"] = <<"authMiddleware", "res.end">>
  /\ res["unitauth"] = [status |-> 401, text |-> <<>>, message |-> "Unauthorized",
                        user |-> Undefined]
  /\ req["unitauth"].user = Undefined

\* C23 as stated: with the Authorization header present the middleware sets
\* req.user and calls next() once without answering; with it absent it
\* answers 401 'Unauthorized' and does not call next().
C23_PresentHeaderPasses ==
  AuthMwRan =>
    /\ req["unitauth"].hasAuth => AuthMwPassed
    /\ ~req["unitauth"].hasAuth => AuthMwRefused

\* C23 amended: authMiddleware does exactly one of two things on every
\* request: with an Authorization header that is present and not empty it sets
\* req.user to the simulated user and calls next() once without sending a
\* response; with the header absent or empty it responds 401
\* { message: 'Unauthorized' } and does not call next().
C23_NonEmptyHeaderPasses ==
  AuthMwRan =>
    /\ (req["unitauth"].hasAuth /\ req["unitauth"].auth # <<>>) =>
         AuthMwPassed /\ ~AuthMwRefused
    /\ (~req["unitauth"].hasAuth \/ req["unitauth"].auth = <<>>) =>
         AuthMwRefused /\ ~AuthMwPassed

\* the test's request with 'token' went on to the next layer
C23_Witness ==
  /\ req["unitauth"].auth = <<"token">>
  /\ AuthMwPassed
  /\ Count(trace["unitauth"], "res.end") > 0

----------------------------------------------------------------------------
(* Further claims about the JWT example *)

\* C24: in the JWT example, after any sequence of POST /register and POST
\* /login requests, a login with a username and password returns a token
\* whenever an earlier register request registered exactly that pair, also
\* when the same username was registered more than once with different
\* passwords.
C24_RegisteredPairGetsToken ==
  (jwtLast.op = "login" /\ Registered(jwtLast.username, jwtLast.password)) =>
     /\ jwtLast.status = 200
     /\ jwtLast.token = JwtSign(jwtLast.username, secretKey, jwtLast.at)

----------------------------------------------------------------------------
(* Further claims about the session-based authentication example *)

\* the step is a request of client c to the basic example
AuthSessStep(c) == last'["authsess"][c].tick # last["authsess"][c].tick

\* the step is a POST /login of c that was refused
FailedLogin(c) ==
  AuthSessStep(c) /\ last'["authsess"][c].op = "login" /\ last'["authsess"][c].status # 200

\* the step is a POST /logout of c whose session.destroy reported an error
FailedLogout(c) ==
  AuthSessStep(c) /\ last'["authsess"][c].op = "logout" /\ last'["authsess"][c].derr

\* the sessions and the cookies are what they were, and with them whether the
\* client is logged in
SessionStateKept(c) ==
  /\ store'["authsess"] = store["authsess"]
  /\ jar'["authsess"] = jar["authsess"]
  /\ ClientCarries("authsess", c)' <=> ClientCarries("authsess", c)

C25_FailedStep ==
  \A c \in Clients :
    /\ FailedLogin(c) =>
         /\ last'["authsess"][c].status = 401
         /\ last'["authsess"][c].text = <<"Invalid credentials">>
         /\ SessionStateKept(c)
    /\ FailedLogout(c) =>
         /\ last'["authsess"][c].status = 500
         /\ last'["authsess"][c].text = <<"Could not log out">>
         /\ SessionStateKept(c)

\* C25: in the session-based authentication example a request that fails
\* leaves the session state unchanged: a POST /login answered 401 does not
\* modify session.userId, a logged-in client stays logged in and a logged-out
\* one logged out, and a POST /logout whose session.destroy reports an error
\* answers 500 'Could not log out' and the session keeps its userId.
C25_FailedRequestKeepsSession == [][C25_FailedStep]_vars

\* a logged-in client was refused a login and is still logged in, and another
\* got the 500 from logout and is still logged in
C25_Witness ==
  \E c, d \in Clients :
    /\ c # d
    /\ last["authsess"][c].op = "login" /\ last["authsess"][c].status = 401
    /\ ClientCarries("authsess", c)
    /\ last["authsess"][d].op = "logout" /\ last["authsess"][d].derr
    /\ last["authsess"][d].status = 500
    /\ ClientCarries("authsess", d)

----------------------------------------------------------------------------
(* Further claims about the cluster example *)

\* the workers whose process runs
LiveWorkers == {w \in Workers : worker[w] \in {"forked", "listening"}}

\* the master's loop has forked all its workers
StartupDone == \A w \in Workers : worker[w] # "none"

\* the worker exits so far: those the master has logged and those whose
\* 'exit' event it has yet to handle
ExitsSoFar ==
  Cardinality({i \in 1..Len(clog) : clog[i][3] = " died"}) + Cardinality(exits)

C26_Workers ==
  /\ Cardinality(LiveWorkers) <= NumCPUs
  /\ StartupDone => Cardinality(LiveWorkers) = NumCPUs - ExitsSoFar
  /\ Cardinality(LiveWorkers) + ExitsSoFar
       + Cardinality({w \in Workers : worker[w] = "none"}) = NumCPUs

\* a worker is forked once: one that died stays dead, one that was forked is
\* not forked again
C26_ForkStep ==
  \A w \in Workers :
    /\ worker[w] = "dead" => worker'[w] = "dead"
    /\ worker[w] # "none" => worker'[w] \notin {"none"}
    /\ worker[w] = "listening" => worker'[w] # "forked"

----------------------------------------------------------------------------
(* Claims about the 'Save a user to the database' example *)

\* C27: in the POST /user example, whose async handler awaits user.save()
\* without try/catch, every request eventually receives exactly one response,
\* also when user.save() rejects.
C27_EveryRequestAnswered ==
  /\ [](\A r \in SaveRequests : Len(sans[r]) <= 1)
  /\ \A r \in SaveRequests : (sreq[r].state # "none") ~> (Len(sans[r]) = 1)

====
